---- MODULE Spec2Model ----
(***************************************************************************)
(* YaP Mic Pass Ult: the server's session loop (MicStreamServer.run), the  *)
(* handshake (receive_audio_config), the Receiver                          *)
(* (stream_audio_from_client) and the SinkWriter (audio_writer_thread),    *)
(* which share audio_queue.                                                *)
(*                                                                         *)
(* A buffer of the Receiver is [id, n, pad]: the n bytes that its id-th     *)
(* frame read took off the socket, followed by pad zero bytes.             *)
(* The client (MicStreamClient) is modelled with its frames as sequences   *)
(* of bytes.                                                               *)
(* Text is a sequence of one-character strings.                            *)
(***************************************************************************)
EXTENDS Integers, Sequences, FiniteSets, TLC

(* ------------------------------ bounds -------------------------------- *)
\* client connections accepted in one run of the server
MaxSessions == 2
\* length of the client's audio stream, in frames of the negotiated size
MaxFrames == 4
\* the same, when the writer never gets to pop
MaxNoPopFrames == 14
\* partial recv results while one frame is read
MaxPartialReads == 1
\* recv timeouts that hit a partly received frame, in one session
MaxDiscards == 1
\* underrun repetitions of the last frame in one run
MaxRepeats == 2
\* the same, in the end-to-end scenario
MaxEndToEndFrames == 5
\* the client's chunk_size, in samples per channel
MaxChunkSize == 2
\* frames the client sends
MaxClientFrames == 2
\* calls of set_volume while the client streams
MaxVolumeSets == 2
\* results of write short of what was passed, in one run
MaxPartialWrites == 2
\* frames of the client whose pauses and whose sink's partial writes are followed
MaxPacedFrames == 2
\* recv timeouts in a row that are counted
MaxIdleTimeouts == 2
\* recv calls of the GUI server that return data, in one session
MaxGuiFrames == 4

(* ------------------------------- text --------------------------------- *)
NL == "\n"
CR == "\r"
COLON == ":"
DigitChar == <<"0", "1", "2", "3", "4", "5", "6", "7", "8", "9">>

IsDigit(c) == \E d \in 1..10 : DigitChar[d] = c
\* (variant: the position in DigitChar taken for the value)
DigitVal_Index(c) == CHOOSE d \in 1..10 : DigitChar[d] = c
DigitVal(c) == (CHOOSE d \in 1..10 : DigitChar[d] = c) - 1
IsSpace(c) == c \in {" ", NL, CR, "\t"}

Range(s) == {s[i] : i \in 1..Len(s)}

\* str.lstrip() and str.rstrip()
LStrip(s) ==
    IF \A i \in 1..Len(s) : IsSpace(s[i]) THEN <<>>
    ELSE SubSeq(s, CHOOSE k \in 1..Len(s) :
                       ~IsSpace(s[k]) /\ \A j \in 1..(k - 1) : IsSpace(s[j]),
                Len(s))
RStrip(s) ==
    IF \A i \in 1..Len(s) : IsSpace(s[i]) THEN <<>>
    ELSE SubSeq(s, 1, CHOOSE k \in 1..Len(s) :
                          ~IsSpace(s[k]) /\ \A j \in (k + 1)..Len(s) : IsSpace(s[j]))

\* str.strip()
Strip(s) == RStrip(LStrip(s))

\* str.startswith(p)
StartsWith(s, p) == Len(s) >= Len(p) /\ SubSeq(s, 1, Len(p)) = p

\* str.split(sep) for a one-character separator
RECURSIVE Split(_, _)
Split(s, sep) ==
    IF \E i \in 1..Len(s) : s[i] = sep
    THEN LET i == CHOOSE k \in 1..Len(s) :
                      s[k] = sep /\ \A j \in 1..(k - 1) : s[j] # sep
         IN  <<SubSeq(s, 1, i - 1)>> \o Split(SubSeq(s, i + 1, Len(s)), sep)
    ELSE <<s>>

\* the digits of int(): a digit first and last, single underscores between digits
DigitsOk(b) ==
    /\ b # <<>>
    /\ IsDigit(b[1])
    /\ IsDigit(b[Len(b)])
    /\ \A i \in 1..Len(b) : IsDigit(b[i]) \/ b[i] = "_"
    /\ \A i \in 1..(Len(b) - 1) : ~(b[i] = "_" /\ b[i + 1] = "_")

RECURSIVE DigitsValue(_, _)
DigitsValue(b, acc) ==
    IF b = <<>> THEN acc
    ELSE IF Head(b) = "_" THEN DigitsValue(Tail(b), acc)
    ELSE DigitsValue(Tail(b), acc * 10 + DigitVal(Head(b)))

\* int(text): [ok, val]; ok = FALSE stands for ValueError
ParseInt(s) ==
    LET t == Strip(s)
        signed == t # <<>> /\ t[1] \in {"+", "-"}
        body == IF signed THEN Tail(t) ELSE t
    IN  IF DigitsOk(body)
        THEN [ok |-> TRUE,
              val |-> IF signed /\ t[1] = "-" THEN 0 - DigitsValue(body, 0)
                      ELSE DigitsValue(body, 0)]
        ELSE [ok |-> FALSE, val |-> 0]

\* str(n) of a natural number, as an f-string formats it
RECURSIVE NatToStr(_)
NatToStr(n) ==
    IF n < 10 THEN <<DigitChar[n + 1]>>
    ELSE NatToStr(n \div 10) \o <<DigitChar[(n % 10) + 1]>>

RECURSIVE Join(_, _)
Join(fields, sep) ==
    IF Len(fields) = 0 THEN <<>>
    ELSE IF Len(fields) = 1 THEN fields[1]
    ELSE fields[1] \o <<sep>> \o Join(Tail(fields), sep)

S_CONFIG == <<"C", "O", "N", "F", "I", "G">>
S_PREFIX == S_CONFIG \o <<COLON>>
LOW_LATENCY == <<"l", "o", "w", "_", "l", "a", "t", "e", "n", "c", "y">>
BALANCED == <<"b", "a", "l", "a", "n", "c", "e", "d">>
HIGH_QUALITY == <<"h", "i", "g", "h", "_", "q", "u", "a", "l", "i", "t", "y">>

(* --------------------------- the handshake ---------------------------- *)
max_length == 256

\* (variant: one recv(max_length) takes whatever the client has sent)
ReadConfigLine_Chunked(w, ending, buffer) ==
    IF w = <<>>
    THEN [st |-> IF ending = "close" THEN "closed" ELSE "timeout",
          buffer |-> buffer]
    ELSE [st |-> "read",
          buffer |-> SubSeq(w, 1, IF Len(w) < max_length THEN Len(w)
                                  ELSE max_length)]

\* The recv(1) loop: w is what the client sends before it stops sending,
\* ending what it does then ("close": the peer closes, "stall": it goes
\* silent and recv times out), buffer what has been read so far.  The loop
\* takes one byte per turn while buffer holds no newline and is shorter than
\* max_length: it ends with the first newline, with max_length bytes, or
\* with the client's last byte.
ReadConfigLine(w, ending, buffer) ==
    LET Stops(k) == w[k] = NL \/ k >= max_length
        from == Len(buffer) + 1
    IN  IF NL \in Range(buffer) \/ Len(buffer) >= max_length
        THEN [st |-> "read", buffer |-> buffer]
        ELSE IF \E k \in from..Len(w) : Stops(k)
        THEN [st |-> "read",
              buffer |-> SubSeq(w, 1, CHOOSE k \in from..Len(w) :
                                          Stops(k) /\ \A j \in from..(k - 1) : ~Stops(j))]
        ELSE [st |-> IF ending = "close" THEN "closed" ELSE "timeout",
              buffer |-> w]

\* self.client_socket.settimeout(5.0): the seconds one recv waits
config_timeout == 5

\* The recv(1) loop for a client that lets g seconds pass before each byte:
\* every recv waits for its byte with a timeout of its own, so the bytes
\* arrive in time when g is less than the timeout and the first recv times
\* out otherwise.
RecvPaced(w, ending, g) ==
    IF g >= config_timeout THEN ReadConfigLine(<<>>, "stall", <<>>)
    ELSE ReadConfigLine(w, ending, <<>>)

\* the seconds from settimeout to the end of that loop: g for every byte
\* taken, and the timeout when the last recv ran into it
ElapsedReading(r, g) ==
    g * Len(r.buffer) + (IF r.st = "timeout" THEN config_timeout ELSE 0)

ValidSampleRate(v) == ~(v < 8000 \/ v > 96000)
ValidChannels(v) == ~(v < 1 \/ v > 2)
\* (variant: the bounds compared the wrong way round at the edges)
ValidChunkSize_OffByOne(v) == ~(v < 63 \/ v > 4097)
ValidChunkSize(v) == ~(v < 64 \/ v > 4096)

\* (variant: a line without a quality field is taken as low_latency)
DefaultQuality_LowLatency == LOW_LATENCY
\* parts[4] if len(parts) >= 5 else 'balanced'
DefaultQuality == BALANCED

\* The checks and assignments that follow the read loop.  old holds
\* sample_rate, channels, chunk_size and quality as they are before the call;
\* cfg holds them as the call leaves them (assignments made before a failure
\* stay).
ParseConfig(buffer, old) ==
    LET config_line == Strip(buffer)
        parts == Split(config_line, COLON)
        Rejected(c) == [ok |-> FALSE, cfg |-> c]
    IN  IF Len(buffer) >= max_length THEN Rejected(old)
        ELSE IF buffer = <<>> THEN Rejected(old)
        ELSE IF ~StartsWith(config_line, S_PREFIX) THEN Rejected(old)
        ELSE IF Len(parts) < 4 THEN Rejected(old)
        ELSE LET sr == ParseInt(parts[2])
                 ch == ParseInt(parts[3])
                 cs == ParseInt(parts[4])
                 q == IF Len(parts) >= 5 THEN parts[5] ELSE DefaultQuality
                 new == [sample_rate |-> sr.val, channels |-> ch.val,
                         chunk_size |-> cs.val, quality |-> q]
             IN  IF ~sr.ok THEN Rejected(old)
                 ELSE IF ~ch.ok
                      THEN Rejected([old EXCEPT !.sample_rate = sr.val])
                 ELSE IF ~cs.ok
                      THEN Rejected([old EXCEPT !.sample_rate = sr.val,
                                                !.channels = ch.val])
                 ELSE IF ~ValidSampleRate(sr.val) THEN Rejected(new)
                 ELSE IF ~ValidChannels(ch.val) THEN Rejected(new)
                 ELSE IF ~ValidChunkSize(cs.val) THEN Rejected(new)
                 ELSE [ok |-> TRUE, cfg |-> new]

\* (variant: the constructor's maxsize=5 kept for every quality)
QueueMaxsize_AlwaysFive(q) == 5
\* queue.Queue(maxsize=...) chosen by the negotiated quality
QueueMaxsize(q) ==
    IF q = LOW_LATENCY THEN 3 ELSE IF q = HIGH_QUALITY THEN 8 ELSE 5

(* ------------------------- what clients send -------------------------- *)
ConfigLine(fields) == Join(fields, COLON) \o <<NL>>

\* lines the code accepts
GoodWires ==
    { ConfigLine(<<S_CONFIG, NatToStr(44100), NatToStr(1), NatToStr(64), LOW_LATENCY>>),
      ConfigLine(<<S_CONFIG, NatToStr(8000), NatToStr(2), NatToStr(64), BALANCED>>),
      ConfigLine(<<S_CONFIG, NatToStr(96000), NatToStr(1), NatToStr(4096), HIGH_QUALITY>>),
      ConfigLine(<<S_CONFIG, NatToStr(8000), NatToStr(2), NatToStr(64)>>),
      <<" ">> \o Join(<<S_CONFIG, <<"+">> \o NatToStr(8000), NatToStr(2),
                        <<"6", "_", "4">>, BALANCED>>, COLON) \o <<CR, NL>> }

\* lines that are malformed in one way each
BadWires ==
    { ConfigLine(<<<<"H", "E", "L", "L", "O">>>>),
      ConfigLine(<<<<"C", "O", "N", "F", "I", "X">>, NatToStr(44100), NatToStr(1),
                   NatToStr(64), BALANCED>>),
      ConfigLine(<<S_CONFIG \o NatToStr(44100), NatToStr(1), NatToStr(64),
                   BALANCED, BALANCED>>),
      ConfigLine(<<>>),
      ConfigLine(<<S_CONFIG>>),
      ConfigLine(<<S_CONFIG, <<>>>>),
      ConfigLine(<<S_CONFIG, NatToStr(44100), NatToStr(1)>>),
      ConfigLine(<<S_CONFIG, <<"a", "b", "c">>, NatToStr(1), NatToStr(64), BALANCED>>),
      ConfigLine(<<S_CONFIG, NatToStr(48000), <<"x">>, NatToStr(64), BALANCED>>),
      ConfigLine(<<S_CONFIG, NatToStr(48000), NatToStr(2), <<>>, BALANCED>>),
      ConfigLine(<<S_CONFIG, NatToStr(48000), NatToStr(2), <<"6", "4", ".", "0">>>>),
      ConfigLine(<<S_CONFIG, NatToStr(7999), NatToStr(1), NatToStr(64), BALANCED>>),
      ConfigLine(<<S_CONFIG, NatToStr(96001), NatToStr(1), NatToStr(64), BALANCED>>),
      ConfigLine(<<S_CONFIG, <<"-">> \o NatToStr(44100), NatToStr(1), NatToStr(64)>>),
      ConfigLine(<<S_CONFIG, NatToStr(44100), NatToStr(0), NatToStr(64), BALANCED>>),
      ConfigLine(<<S_CONFIG, NatToStr(44100), NatToStr(3), NatToStr(64), BALANCED>>),
      ConfigLine(<<S_CONFIG, NatToStr(44100), NatToStr(2), NatToStr(63), LOW_LATENCY>>),
      ConfigLine(<<S_CONFIG, NatToStr(44100), NatToStr(2), NatToStr(4097), HIGH_QUALITY>>) }

\* a line made L bytes long, newline included, by spaces before the newline
PadLine(fields, L) ==
    Join(fields, COLON) \o [i \in 1..(L - 1 - Len(Join(fields, COLON))) |-> " "]
        \o <<NL>>
PlainFields == <<S_CONFIG, NatToStr(8000), NatToStr(2), NatToStr(64), BALANCED>>

\* lines at the length cap: the newline as byte 255, 256 and 257
CapWires ==
    { PadLine(PlainFields, max_length - 1), PadLine(PlainFields, max_length),
      PadLine(PlainFields, max_length + 1) }

\* a quality that is none of the three names
UnknownQualityWires ==
    { ConfigLine(<<S_CONFIG, NatToStr(8000), NatToStr(2), NatToStr(64),
                   <<"u", "l", "t", "r", "a">>>>) }

\* the config line and the first audio bytes (one of them 0x0A) sent together
SegmentWires ==
    { ConfigLine(<<S_CONFIG, NatToStr(44100), NatToStr(1), NatToStr(64),
                   LOW_LATENCY>>) \o <<"a", NL, "b">> }

\* a client that stops before the line is complete
CutWires ==
    { <<>>, Join(<<S_CONFIG, NatToStr(44100), NatToStr(1), NatToStr(64), BALANCED>>, COLON) }

\* (what is sent, what the client does once it has sent it)
ClientScripts ==
    ((GoodWires \cup BadWires \cup CapWires \cup UnknownQualityWires
          \cup SegmentWires) \X {"stall"})
        \cup (CutWires \X {"close", "stall"})

(* ------------------------------ buffers ------------------------------- *)
None == [id |-> 0 - 1, n |-> 0, pad |-> 0]
\* b'' at the start of the Receiver's id-th frame read
Empty(id) == [id |-> id, n |-> 0, pad |-> 0]
\* data + chunk, chunk of k bytes off the socket
Extend(d, k) == [d EXCEPT !.n = @ + k]

\* len(data)
BufLen(d) == d.n + d.pad
\* (variant: the padding is lost)
ZeroPad_NoPadding(d, k) == d
\* data + b'\x00' * k
ZeroPad(d, k) == [d EXCEPT !.pad = @ + k]
\* data[:size]
Truncate(d, size) ==
    IF d.n >= size THEN [d EXCEPT !.n = size, !.pad = 0]
    ELSE [d EXCEPT !.pad = size - d.n]
\* pad when short, truncate when long
FitToSize(d, size) ==
    IF BufLen(d) < size THEN ZeroPad(d, size - BufLen(d))
    ELSE IF BufLen(d) > size THEN Truncate(d, size)
    ELSE d
\* a bytes object, or None, used as a condition
Truthy(d) == d # None /\ BufLen(d) > 0

Last(q) == q[Len(q)]

(* ------------------------------- state -------------------------------- *)
VARIABLES
    pc,              \* where the main thread is: run and, inside it, the Receiver
    running,         \* self.running
    sessions,        \* connections accepted so far
    client_socket,   \* "none" | "open"
    wire,            \* what the connected client sends for the handshake
    ending,          \* what it does after that: "close" | "stall"
    peerGone,        \* the peer has closed or the connection has failed
    rcvd,            \* post-handshake bytes taken off the socket so far
    frames,          \* frame reads that ended with a buffer to queue
    discards,        \* frame reads that a timeout ended after some bytes
    sample_rate, channels, chunk_size, quality,
    maxsize,         \* audio_queue.maxsize
    audio_queue,     \* the queued buffers, oldest first
    data,            \* the Receiver's buffer for put_nowait
    dropped, max_drop,
    wpc,             \* where audio_writer_thread is
    wexit,           \* how it ended
    pipe_file,       \* "none" | "open" | "closed"
    audio_data,      \* the buffer the writer is about to write
    last_audio_data,
    write_count,
    repeats,         \* underrun repetitions so far
    pushed,          \* every buffer put on audio_queue, in order
    atEnd,           \* audio_queue as it was when the Receiver ended the session
    sink,            \* every buffer written to the pipe, in order
    overflows,       \* put_nowait calls of the Receiver that raised queue.Full
    evicted,         \* buffers the Receiver's get_nowait calls removed
    \* the client (MicStreamClient)
    cpc,             \* where the client is
    c_sample_rate, c_channels, c_chunk_size, c_quality,
    volume,          \* self.volume, in quarters: 4 stands for 1.0
    HAS_NUMPY,       \* whether numpy could be imported
    config_str,      \* the line send_audio_config passed to sendall
    captured,        \* what stream.read returned for the current frame
    c_data,          \* the client's `data`: a sequence of bytes
    samples,         \* the struct path's list of scaled samples, as far as built
    reads,           \* the values of self.volume read for the current frame
    payload,         \* what was last passed to sendall
    frame_count,
    volume_sets,     \* calls of set_volume so far
    c_running,       \* the client's self.running
    stream,          \* the client's capture stream: "none" | "open" | "closed"
    socket,          \* the client's self.socket: "none" | "open" | "closed"
    \* the server, continued
    config_line,     \* receive_audio_config's config_line, while run is between
                     \* that call and the next one
    idle_timeouts,   \* consecutive recv timeouts with nothing accumulated,
                     \* counted up to the action's limit
    pipe,            \* the byte ranges the pipe has taken, in order, of the
                     \* buffer last passed to write
    remaining,       \* len(remaining) of the frame write under way, else 0
    partial_writes,  \* results of write so far that were short of the request
    flush_at,        \* write_count at each call of pipe_file.flush()
    pipe_exists,     \* os.path.exists(self.pipe_path)
    mkfifo_fails,    \* os.mkfifo would raise
    exit_code,       \* "none", or the status main passes to sys.exit
    pacing,          \* seconds the connected client lets pass before each
                     \* byte of its config line
    elapsed          \* seconds receive_audio_config took, while run is
                     \* between that call and the next one

vars == <<pc, running, sessions, client_socket, wire, ending, peerGone, rcvd,
          frames, discards,
          sample_rate, channels, chunk_size, quality, maxsize, audio_queue,
          data, dropped, max_drop, wpc, wexit, pipe_file,
          audio_data, last_audio_data, write_count, repeats, pushed, atEnd,
          sink, overflows, evicted,
          cpc, c_sample_rate, c_channels, c_chunk_size, c_quality, volume,
          HAS_NUMPY, config_str, captured, c_data, samples, reads, payload,
          frame_count, volume_sets, c_running, stream, socket,
          config_line, idle_timeouts, pipe, remaining, partial_writes,
          flush_at, pipe_exists, mkfifo_fails, exit_code, pacing, elapsed>>

\* the server's variables
serverVars == <<pc, running, sessions, client_socket, wire, ending, peerGone,
                rcvd, frames, discards,
                sample_rate, channels, chunk_size, quality, maxsize,
                audio_queue, data, dropped, max_drop, wpc, wexit, pipe_file,
                audio_data, last_audio_data, write_count, repeats, pushed,
                atEnd, sink, overflows, evicted,
                config_line, idle_timeouts, pipe, remaining, partial_writes,
                flush_at, pipe_exists, mkfifo_fails, exit_code, pacing, elapsed>>
\* the client's configuration and its streaming state
clientConfig == <<c_sample_rate, c_channels, c_chunk_size, c_quality>>
\* what cleanup releases
clientRes == <<c_running, stream, socket>>
clientVars == <<cpc, clientConfig, volume, HAS_NUMPY, config_str, captured,
                c_data, samples, reads, payload, frame_count, volume_sets,
                clientRes>>
dropVars == <<overflows, evicted>>

connVars == <<sessions, client_socket, wire, ending, peerGone, rcvd, frames,
              discards>>
configVars == <<sample_rate, channels, chunk_size, quality, maxsize>>
recvVars == <<data, dropped, max_drop>>
writerVars == <<wpc, wexit, pipe_file, audio_data, last_audio_data, write_count,
                repeats, sink>>
\* what the pipe has taken and when it was flushed
pipeVars == <<pipe, remaining, partial_writes, flush_at>>
\* the FIFO in the file system
fifoVars == <<pipe_exists, mkfifo_fails>>
\* the handshake under way or just made
lineVars == <<config_line, pacing, elapsed>>
auxVars == <<lineVars, idle_timeouts, pipeVars, fifoVars, exit_code>>

\* data_size = self.chunk_size * self.channels * 2
DataSize == chunk_size * channels * 2

\* MicStreamServer.__init__, then run up to self.running = True
ServerInit ==
    /\ pc = "accept"
    /\ running = TRUE
    /\ sessions = 0
    /\ client_socket = "none"
    /\ wire = <<>>
    /\ ending = "stall"
    /\ peerGone = FALSE
    /\ rcvd = 0
    /\ frames = 0
    /\ discards = 0
    /\ sample_rate = 44100
    /\ channels = 1
    /\ chunk_size = 128
    /\ quality = BALANCED
    /\ maxsize = 5
    /\ audio_queue = <<>>
    /\ data = None
    /\ dropped = 0
    /\ max_drop = 0
    /\ wpc = "idle"
    /\ wexit = "none"
    /\ pipe_file = "none"
    /\ audio_data = None
    /\ last_audio_data = None
    /\ write_count = 0
    /\ repeats = 0
    /\ pushed = <<>>
    /\ atEnd = <<>>
    /\ sink = <<>>
    /\ overflows = 0
    /\ evicted = 0
    /\ config_line = <<>>
    /\ idle_timeouts = 0
    /\ pipe = <<>>
    /\ remaining = 0
    /\ partial_writes = 0
    /\ flush_at = <<>>
    /\ pipe_exists = TRUE
    /\ mkfifo_fails = FALSE
    /\ exit_code = "none"
    /\ pacing = 0
    /\ elapsed = 0

(* ------------------------ the client: its config ---------------------- *)
Qualities == {LOW_LATENCY, BALANCED, HIGH_QUALITY}

\* _apply_quality_preset, on the four config attributes
ApplyQualityPreset(c) ==
    IF c.quality = LOW_LATENCY
    THEN [c EXCEPT !.chunk_size = IF @ > 128 THEN 128 ELSE @,
                   !.sample_rate = IF @ > 22050 THEN 22050 ELSE @]
    ELSE IF c.quality = HIGH_QUALITY
    THEN [c EXCEPT !.chunk_size = IF @ < 512 THEN 512 ELSE @,
                   !.sample_rate = IF @ < 44100 THEN 44100 ELSE @]
    ELSE c

\* max(0.0, min(2.0, volume)), in quarters
ClampVolume(v) == IF v < 0 THEN 0 ELSE IF v > 8 THEN 8 ELSE v

\* MicStreamClient.__init__ with these arguments
ClientCreated(args, vol, numpy) ==
    LET c == ApplyQualityPreset(args)
    IN  /\ cpc = "created"
        /\ c_sample_rate = c.sample_rate
        /\ c_channels = c.channels
        /\ c_chunk_size = c.chunk_size
        /\ c_quality = c.quality
        /\ volume = ClampVolume(vol)
        /\ HAS_NUMPY = numpy
        /\ config_str = <<>>
        /\ captured = <<>>
        /\ c_data = <<>>
        /\ samples = <<>>
        /\ reads = <<>>
        /\ payload = <<>>
        /\ frame_count = 0
        /\ volume_sets = 0
        /\ c_running = FALSE
        /\ stream = "none"
        /\ socket = "none"

\* the constructor's defaults
DefaultArgs ==
    [sample_rate |-> 44100, channels |-> 1, chunk_size |-> 128,
     quality |-> BALANCED]

\* The server as run starts it; the client is constructed and stays idle.
Init == ServerInit /\ ClientCreated(DefaultArgs, 4, TRUE)

\* constructor arguments within the ranges the server accepts
ClientSampleRates == {8000, 8001, 22050, 22051, 44100, 95999, 96000}
ClientChunkSizes == {64, 65, 128, 129, 511, 512, 4095, 4096}
ValidArgs ==
    [sample_rate : ClientSampleRates, channels : {1, 2},
     chunk_size : ClientChunkSizes, quality : Qualities]

\* set_sample_rate
SetSampleRate ==
    /\ cpc = "created"
    /\ \E sr \in ClientSampleRates : c_sample_rate' = sr
    /\ UNCHANGED <<serverVars, clientRes, cpc, c_channels, c_chunk_size, c_quality, volume,
                   HAS_NUMPY, config_str, captured, c_data, samples, reads,
                   payload, frame_count, volume_sets>>

\* set_quality: an unknown name is ignored
SetQuality ==
    /\ cpc = "created"
    /\ \E q \in Qualities \cup {<<"u", "l", "t", "r", "a">>} :
         LET c == [sample_rate |-> c_sample_rate, channels |-> c_channels,
                   chunk_size |-> c_chunk_size, quality |-> q]
             new == IF q \in Qualities THEN ApplyQualityPreset(c)
                    ELSE [c EXCEPT !.quality = c_quality]
         IN  /\ c_sample_rate' = new.sample_rate
             /\ c_chunk_size' = new.chunk_size
             /\ c_quality' = new.quality
    /\ UNCHANGED <<serverVars, clientRes, cpc, c_channels, volume,
                   HAS_NUMPY, config_str, captured, c_data, samples, reads,
                   payload, frame_count, volume_sets>>

\* run: connect_to_server makes the socket, then send_audio_config: the
\* f-string, then sendall
SendAudioConfig ==
    /\ cpc = "created"
    /\ socket' = "open"
    /\ config_str' = ConfigLine(<<S_CONFIG, NatToStr(c_sample_rate),
                                  NatToStr(c_channels), NatToStr(c_chunk_size),
                                  c_quality>>)
    /\ cpc' = "configured"
    /\ UNCHANGED <<serverVars, c_running, stream, clientConfig, volume, HAS_NUMPY, captured,
                   c_data, samples, reads, payload, frame_count, volume_sets>>

\* accept_client returns True for the connection of this client: what it has
\* sent is what the server's recv calls will find
AcceptSender ==
    /\ pc = "accept"
    /\ cpc = "configured"
    /\ sessions < MaxSessions
    /\ wire' = config_str
    /\ ending' = "stall"
    /\ sessions' = sessions + 1
    /\ client_socket' = "open"
    /\ peerGone' = FALSE
    /\ rcvd' = 0
    /\ frames' = 0
    /\ discards' = 0
    /\ pc' = "config"
    /\ UNCHANGED <<running, configVars, audio_queue, recvVars, writerVars,
                   pushed, atEnd, dropVars, clientVars, auxVars>>

(* ------------------------ the client: stream_audio --------------------- *)
\* b'\x00' * k
Zeros(k) == [i \in 1..k |-> 0]

\* one signed 16-bit sample, little-endian ('<h')
PackSample(x) == <<(x % 65536) % 256, (x % 65536) \div 256>>
UnpackSample(lo, hi) ==
    IF lo + 256 * hi >= 32768 THEN lo + 256 * hi - 65536 ELSE lo + 256 * hi

\* struct.pack(f'<{len(samples)}h', *samples), audio_array.tobytes()
RECURSIVE Pack(_)
Pack(ss) == IF ss = <<>> THEN <<>> ELSE PackSample(Head(ss)) \o Pack(Tail(ss))

\* struct.unpack(f'<{len(data)//2}h', data), np.frombuffer(data, dtype=np.int16)
Unpack(b) == [i \in 1..(Len(b) \div 2) |-> UnpackSample(b[2 * i - 1], b[2 * i])]

\* int(x) of the product s * volume: truncation towards zero (the product of
\* a 16-bit sample and a volume in quarters is exact in a float)
TruncDiv(a, b) == IF a >= 0 THEN a \div b ELSE 0 - ((0 - a) \div b)
Scaled(x, v) == TruncDiv(x * v, 4)

\* max(-32768, min(32767, x))
Clamp16(x) == IF x < 0 - 32768 THEN 0 - 32768 ELSE IF x > 32767 THEN 32767 ELSE x

\* float32 -> int16 by astype: the value when it fits; outside the range the
\* conversion is undefined and the result is what the build's conversion
\* instructions give: the low 16 bits of the 32-bit integer ("wrap"), or the
\* nearest limit ("saturate")
CastModes == {"wrap", "saturate"}
AsTypeInt16(x, mode) ==
    IF 0 - 32768 <= x /\ x <= 32767 THEN x
    ELSE IF mode = "wrap" THEN ((x + 32768) % 65536) - 32768
    ELSE IF x < 0 THEN 0 - 32768 ELSE 32767

\* expected_size = self.chunk_size * self.channels * 2
ExpectedSize == c_chunk_size * c_channels * 2

\* (variant: an oversize chunk is sent as it is)
NormalizeChunk_NoTruncate(d, size) ==
    IF Len(d) < size THEN d \o Zeros(size - Len(d)) ELSE d
\* the size check after stream.read: pad when short, truncate when long
NormalizeChunk(d, size) ==
    IF Len(d) # size
    THEN IF Len(d) < size THEN d \o Zeros(size - Len(d))
         ELSE IF Len(d) > size THEN SubSeq(d, 1, size)
         ELSE d
    ELSE d

\* what stream.read may return: a frame of one constant sample or of two
\* alternating ones, whole, cut short (also inside a sample) or with up to
\* one sample too many
SampleValues == {20000, 0 - 20000, 0 - 3}
ChunkSamples(k) ==
    { [i \in 1..k |-> x] : x \in SampleValues }
        \cup { [i \in 1..k |-> IF i % 2 = 1 THEN 20000 ELSE 0 - 3] }
Chunks(size) ==
    { SubSeq(Pack(ss), 1, n) :
          ss \in ChunkSamples(size \div 2 + 1), n \in 0..(size + 2) }

\* the arguments set_volume is called with, in quarters
VolumeArgs == {0 - 1, 2, 4, 8, 9}

\* stream_audio up to self.running = True
StartStream ==
    /\ cpc = "configured"
    /\ stream' = "open"
    /\ c_running' = TRUE
    /\ cpc' = "read"
    /\ UNCHANGED <<serverVars, socket, clientConfig, volume, HAS_NUMPY, config_str,
                   captured, c_data, samples, reads, payload, frame_count,
                   volume_sets>>

\* data = self.stream.read(self.chunk_size, ...)
StreamRead ==
    /\ cpc = "read"
    /\ frame_count < MaxClientFrames
    /\ \E chunk \in Chunks(ExpectedSize) :
         /\ captured' = chunk
         /\ c_data' = chunk
    /\ cpc' = "got"
    /\ UNCHANGED <<serverVars, clientRes, clientConfig, volume, HAS_NUMPY, config_str,
                   samples, reads, payload, frame_count, volume_sets>>

\* `if not data: continue`, then the size check: pad or truncate
CheckSize ==
    /\ cpc = "got"
    /\ IF c_data = <<>>
       THEN /\ cpc' = "read"
            /\ c_data' = c_data
       ELSE /\ cpc' = "check"
            /\ c_data' = NormalizeChunk(c_data, ExpectedSize)
    /\ UNCHANGED <<serverVars, clientRes, clientConfig, volume, HAS_NUMPY, config_str,
                   captured, samples, reads, payload, frame_count, volume_sets>>

\* (variant: the scaling is done for every gain)
GainCheck_AlwaysScale ==
    /\ cpc = "check"
    /\ reads' = Append(reads, volume)
    /\ cpc' = IF HAS_NUMPY THEN "numpy" ELSE "struct"
    /\ UNCHANGED <<serverVars, clientRes, clientConfig, volume, HAS_NUMPY,
                   config_str, captured, c_data, samples, payload, frame_count,
                   volume_sets>>

\* `if self.volume != 1.0:`
GainCheck ==
    /\ cpc = "check"
    /\ reads' = Append(reads, volume)
    /\ cpc' = IF volume # 4 THEN (IF HAS_NUMPY THEN "numpy" ELSE "struct")
              ELSE "send"
    /\ UNCHANGED <<serverVars, clientRes, clientConfig, volume, HAS_NUMPY, config_str,
                   captured, c_data, samples, payload, frame_count,
                   volume_sets>>

\* the numpy path: (astype(float32) * self.volume).astype(int16), np.clip on
\* the int16 array (which changes nothing), tobytes
ScaleNumpy ==
    /\ cpc = "numpy"
    /\ reads' = Append(reads, volume)
    /\ \E mode \in CastModes :
         c_data' = Pack([i \in 1..(Len(c_data) \div 2) |->
                            Clamp16(AsTypeInt16(Scaled(Unpack(c_data)[i], volume),
                                                mode))])
    /\ cpc' = "send"
    /\ UNCHANGED <<serverVars, clientRes, clientConfig, volume, HAS_NUMPY, config_str,
                   captured, samples, payload, frame_count, volume_sets>>

\* the struct path, one turn of the list comprehension:
\* int(max(-32768, min(32767, s * self.volume))); struct.pack after the last
ScaleStruct ==
    /\ cpc = "struct"
    /\ LET ss == Unpack(c_data)
           out == Append(samples, Clamp16(Scaled(ss[Len(samples) + 1], volume)))
       IN  /\ reads' = Append(reads, volume)
           /\ samples' = out
           /\ IF Len(out) = Len(ss)
              THEN c_data' = Pack(out) /\ cpc' = "send"
              ELSE c_data' = c_data /\ cpc' = "struct"
    /\ UNCHANGED <<serverVars, clientRes, clientConfig, volume, HAS_NUMPY, config_str,
                   captured, payload, frame_count, volume_sets>>

\* self.socket.sendall(data); frame_count += 1
SendAll ==
    /\ cpc = "send"
    /\ payload' = c_data
    /\ frame_count' = frame_count + 1
    /\ cpc' = "sent"
    /\ UNCHANGED <<serverVars, clientRes, clientConfig, volume, HAS_NUMPY, config_str,
                   captured, c_data, samples, reads, volume_sets>>

\* cleanup: `if self.stream:` stop_stream and close, `if self.socket:` close
Released(r) == IF r # "none" THEN "closed" ELSE r

\* (variant: a failed send is followed by the next turn of the loop)
SendError_Retry ==
    /\ cpc = "send"
    /\ cpc' = "read"
    /\ UNCHANGED <<serverVars, clientRes, clientConfig, volume, HAS_NUMPY,
                   config_str, captured, c_data, samples, reads, payload,
                   frame_count, volume_sets>>

\* sendall raises socket.error: break, then the finally clause: cleanup
SendError ==
    /\ cpc = "send"
    /\ c_running' = FALSE
    /\ stream' = Released(stream)
    /\ socket' = Released(socket)
    /\ cpc' = "stopped"
    /\ UNCHANGED <<serverVars, clientConfig, volume, HAS_NUMPY, config_str,
                   captured, c_data, samples, reads, payload, frame_count,
                   volume_sets>>

\* back to `while self.running:`; the turn's locals are dead
StreamLoop ==
    /\ cpc = "sent"
    /\ cpc' = "read"
    /\ captured' = <<>>
    /\ c_data' = <<>>
    /\ samples' = <<>>
    /\ reads' = <<>>
    /\ payload' = <<>>
    /\ UNCHANGED <<serverVars, clientRes, clientConfig, volume, HAS_NUMPY, config_str,
                   frame_count, volume_sets>>

\* set_volume, called from another thread at any point of the loop
SetVolume ==
    /\ cpc \in {"read", "got", "check", "numpy", "struct", "send", "sent"}
    /\ volume_sets < MaxVolumeSets
    /\ \E v \in VolumeArgs : volume' = ClampVolume(v)
    /\ volume_sets' = volume_sets + 1
    /\ UNCHANGED <<serverVars, clientRes, cpc, clientConfig, HAS_NUMPY, config_str,
                   captured, c_data, samples, reads, payload, frame_count>>

(* --------------------------- the session loop ------------------------- *)
\* accept_client returns True: a client has connected
AcceptClient ==
    /\ pc = "accept"
    /\ sessions < MaxSessions
    /\ \E s \in ClientScripts : wire' = s[1] /\ ending' = s[2]
    /\ sessions' = sessions + 1
    /\ client_socket' = "open"
    /\ peerGone' = FALSE
    /\ rcvd' = 0
    /\ frames' = 0
    /\ discards' = 0
    /\ pc' = "config"
    /\ UNCHANGED <<running, configVars, audio_queue, recvVars, writerVars,
                   pushed, atEnd>>
    /\ UNCHANGED <<dropVars, clientVars, auxVars>>

\* the seconds a client lets pass before each byte of its line
Pacings == {0, 1, 4, 5, 6}

\* accept_client returns True for a client that sends its line, or a part of
\* it, one byte at a time
AcceptPaced ==
    /\ pc = "accept"
    /\ sessions < MaxSessions
    /\ \E s \in ClientScripts : wire' = s[1] /\ ending' = s[2]
    /\ \E g \in Pacings : pacing' = g
    /\ sessions' = sessions + 1
    /\ client_socket' = "open"
    /\ peerGone' = FALSE
    /\ rcvd' = 0
    /\ frames' = 0
    /\ discards' = 0
    /\ pc' = "config"
    /\ UNCHANGED <<running, configVars, audio_queue, recvVars, writerVars,
                   pushed, atEnd, dropVars, clientVars, config_line, elapsed,
                   idle_timeouts, pipeVars, fifoVars, exit_code>>

\* accept_client returns True for a client that sends
\* CONFIG:44100:1:128:low_latency and then whole frames
EndToEndWire ==
    ConfigLine(<<S_CONFIG, NatToStr(44100), NatToStr(1), NatToStr(128),
                 LOW_LATENCY>>)
AcceptEndToEnd ==
    /\ pc = "accept"
    /\ sessions < MaxSessions
    /\ wire' = EndToEndWire
    /\ ending' = "stall"
    /\ sessions' = sessions + 1
    /\ client_socket' = "open"
    /\ peerGone' = FALSE
    /\ rcvd' = 0
    /\ frames' = 0
    /\ discards' = 0
    /\ pc' = "config"
    /\ UNCHANGED <<running, configVars, audio_queue, recvVars, writerVars,
                   pushed, atEnd, dropVars, clientVars, auxVars>>

\* sys.exit(0 if success else 1)
ExitStatus(success) == IF success THEN "0" ELSE "1"

\* run's `if self.pipe_path and not os.path.exists(...)`: os.mkfifo, and
\* `except: pass`
RecreatedByRun(exists, fails) == IF ~exists THEN ~fails ELSE exists

\* accept_client returns False (no client within 1 s, or an accept error):
\* run takes its else branch, leaves the loop and returns True
AcceptTimeout ==
    /\ pc = "accept"
    /\ pc' = "exited"
    /\ exit_code' = ExitStatus(TRUE)
    /\ UNCHANGED <<running, connVars, configVars, audio_queue, recvVars,
                   writerVars, pushed, atEnd>>
    /\ UNCHANGED <<dropVars, clientVars, lineVars, idle_timeouts, pipeVars,
                   fifoVars>>

\* config_line = buffer.decode('utf-8').strip(), for a read that reaches that
\* line; <<>> stands for the name being unbound
DecodedLine(r) ==
    IF r.st = "read" /\ Len(r.buffer) < max_length /\ r.buffer # <<>>
    THEN Strip(r.buffer)
    ELSE <<>>

\* receive_audio_config, whole; on True run calls stream_audio_from_client.
\* wire is left with the bytes the recv(1) loop did not take.
ReceiveAudioConfig ==
    /\ pc = "config"
    /\ LET r == RecvPaced(wire, ending, pacing)
           old == [sample_rate |-> sample_rate, channels |-> channels,
                   chunk_size |-> chunk_size, quality |-> quality]
           res == IF r.st = "read" THEN ParseConfig(r.buffer, old)
                  ELSE [ok |-> FALSE, cfg |-> old]
       IN  /\ sample_rate' = res.cfg.sample_rate
           /\ channels' = res.cfg.channels
           /\ chunk_size' = res.cfg.chunk_size
           /\ quality' = res.cfg.quality
           /\ IF res.ok
              THEN /\ audio_queue' = <<>>
                   /\ maxsize' = QueueMaxsize(res.cfg.quality)
                   /\ pc' = "start"
              ELSE /\ UNCHANGED <<audio_queue, maxsize>>
                   /\ pc' = "close"
    /\ wire' = SubSeq(wire, Len(RecvPaced(wire, ending, pacing).buffer) + 1,
                       Len(wire))
    /\ config_line' = DecodedLine(RecvPaced(wire, ending, pacing))
    /\ elapsed' = ElapsedReading(RecvPaced(wire, ending, pacing), pacing)
    /\ pacing' = pacing
    /\ UNCHANGED <<running, sessions, client_socket, ending, peerGone, rcvd,
                   frames, discards, recvVars, writerVars, pushed, atEnd>>
    /\ UNCHANGED <<dropVars, clientVars, idle_timeouts, pipeVars, fifoVars,
                   exit_code>>

\* (variant: run leaves its loop after any session)
CloseSession_Break ==
    /\ pc = "close"
    /\ client_socket' = "none"
    /\ wire' = <<>>
    /\ pipe_file' = "none"
    /\ pc' = "exited"
    /\ config_line' = <<>>
    /\ elapsed' = 0
    /\ pacing' = pacing
    /\ pipe_exists' = RecreatedByRun(pipe_exists, mkfifo_fails)
    /\ exit_code' = ExitStatus(TRUE)
    /\ UNCHANGED <<running, sessions, ending, peerGone, rcvd, frames,
                   discards, configVars, audio_queue, recvVars, wpc, wexit,
                   audio_data, last_audio_data, write_count, repeats, sink,
                   pushed, atEnd>>
    /\ UNCHANGED <<dropVars, clientVars, idle_timeouts, pipeVars, mkfifo_fails>>

\* (variant: run goes back to accept whatever self.running is)
CloseSession_KeepListening ==
    /\ pc = "close"
    /\ client_socket' = "none"
    /\ wire' = <<>>
    /\ pipe_file' = "none"
    /\ pc' = "accept"
    /\ config_line' = <<>>
    /\ elapsed' = 0
    /\ pacing' = pacing
    /\ pipe_exists' = RecreatedByRun(pipe_exists, mkfifo_fails)
    /\ UNCHANGED <<running, sessions, ending, peerGone, rcvd, frames,
                   discards, configVars, audio_queue, recvVars, wpc, wexit,
                   audio_data, last_audio_data, write_count, repeats, sink,
                   pushed, atEnd>>
    /\ UNCHANGED <<dropVars, clientVars, idle_timeouts, pipeVars, mkfifo_fails,
                   exit_code>>

\* run, after the session: close the client socket and the pipe file, make
\* the FIFO again if it is missing, then test `while self.running`; out of the
\* loop run returns True and main exits with that
CloseSession ==
    /\ pc = "close"
    /\ client_socket' = "none"
    /\ wire' = <<>>
    /\ pipe_file' = "none"
    /\ pc' = IF running THEN "accept" ELSE "exited"
    /\ config_line' = <<>>
    /\ elapsed' = 0
    /\ pacing' = pacing
    /\ pipe_exists' = RecreatedByRun(pipe_exists, mkfifo_fails)
    /\ exit_code' = IF running THEN exit_code ELSE ExitStatus(TRUE)
    /\ UNCHANGED <<running, sessions, ending, peerGone, rcvd, frames,
                   discards, configVars,
                   audio_queue, recvVars, wpc, wexit, audio_data,
                   last_audio_data, write_count, repeats, sink, pushed, atEnd>>
    /\ UNCHANGED <<dropVars, clientVars, idle_timeouts, pipeVars, mkfifo_fails>>

(* ----------------------------- audio_queue ---------------------------- *)
\* put_nowait raises queue.Full
QueueFull(q, cap) == Len(q) >= cap
\* (variant: a LIFO queue)
QueuePut_AtFront(q, item) == <<item>> \o q
\* put_nowait when there is room
QueuePut(q, item) == Append(q, item)
\* get / get_nowait: the item returned and the queue left
QueueGetItem(q) == Head(q)
QueueGetRest(q) == Tail(q)

\* (variant: the comment's "at least 2 frames" for every quality)
MinBuffer_AlwaysTwo(q) == 2
\* min_buffer = 2 if self.quality == 'low_latency' else 3
MinBuffer(q) == IF q = LOW_LATENCY THEN 2 ELSE 3
\* (variant: one buffer dropped per overflow)
MaxDrop_One(qsize, q) == 1
\* (variant: the queue is cleared on overflow)
MaxDrop_All(qsize, q) == qsize
\* max_drop = max(1, self.audio_queue.qsize() - min_buffer)
MaxDrop(qsize, q) ==
    IF qsize - MinBuffer(q) > 1 THEN qsize - MinBuffer(q) ELSE 1

(* ----------------- the Receiver: stream_audio_from_client -------------- *)
\* What the recv(remaining) calls of one frame read return, in order:
\* "all" (remaining bytes), "half" (remaining \div 2 bytes), "closed" (b''),
\* "timeout", "error".  The loop of one frame read: [end, data, got], got the
\* bytes taken off the socket.
RECURSIVE ReadFrame(_, _, _, _)
ReadFrame(d, rem, got, results) ==
    IF rem > 0
    THEN LET r == Head(results)
         IN  IF r = "all"
             THEN ReadFrame(Extend(d, rem), 0, got + rem, Tail(results))
             ELSE IF r = "half"
             THEN ReadFrame(Extend(d, rem \div 2), rem - rem \div 2,
                            got + rem \div 2, Tail(results))
             ELSE IF r = "closed"
             THEN IF BufLen(d) = 0
                  THEN [end |-> "read", data |-> d, got |-> got]
                  ELSE [end |-> "read", data |-> ZeroPad(d, rem), got |-> got]
             ELSE [end |-> r, data |-> d, got |-> got]
    ELSE [end |-> "read", data |-> d, got |-> got]

\* j partial results, then one that ends the read
RecvResults(j, last) == [i \in 1..(j + 1) |-> IF i <= j THEN "half" ELSE last]

\* writer_thread.start().  What the handshake left unread is the head of the
\* audio stream: from here on the stream's bytes are counted (rcvd), not kept.
StartWriter ==
    /\ pc = "start"
    /\ wpc' = "open"
    /\ pc' = "loop"
    /\ wire' = <<>>
    /\ config_line' = <<>>
    /\ elapsed' = 0
    /\ pacing' = pacing
    /\ UNCHANGED <<running, sessions, client_socket, ending, peerGone, rcvd,
                   frames, discards, configVars, audio_queue, recvVars, wexit,
                   pipe_file, audio_data, last_audio_data, write_count, repeats,
                   sink, pushed, atEnd>>
    /\ UNCHANGED <<dropVars, clientVars, idle_timeouts, pipeVars, fifoVars,
                   exit_code>>

\* `while self.running:`
RecvLoop ==
    /\ pc = "loop"
    /\ pc' = IF running THEN "recv" ELSE "finally"
    /\ UNCHANGED <<running, connVars, configVars, audio_queue, recvVars,
                   writerVars, pushed, atEnd>>
    /\ UNCHANGED <<dropVars, clientVars, auxVars>>

\* (variant: a frame the peer's close cut short is dropped and the loop left)
RecvFrameUpTo_DiscardPartial(limit) ==
    /\ pc = "recv"
    /\ ~peerGone
    /\ frames < limit
    /\ \E j \in 0..MaxPartialReads, last \in {"all", "closed"} :
         LET r == ReadFrame(Empty(frames), DataSize, 0, RecvResults(j, last))
         IN  /\ BufLen(r.data) > 0
             /\ rcvd' = rcvd + r.got
             /\ peerGone' = (last = "closed")
             /\ IF last = "closed"
                THEN /\ UNCHANGED <<data, frames>>
                     /\ pc' = "finally"
                ELSE /\ data' = FitToSize(FitToSize(r.data, DataSize), DataSize)
                     /\ frames' = frames + 1
                     /\ pc' = "put"
    /\ idle_timeouts' = 0
    /\ UNCHANGED <<running, sessions, client_socket, wire, ending, discards,
                   configVars, audio_queue, dropped, max_drop,
                   writerVars, pushed, atEnd>>
    /\ UNCHANGED <<dropVars, clientVars, lineVars, pipeVars, fifoVars,
                   exit_code>>

\* one frame read that ends with data in hand (a complete frame, or a partial
\* one when the peer closes): the two size checks run and the Receiver is at
\* put_nowait
RecvFrameUpTo(limit) ==
    /\ pc = "recv"
    /\ ~peerGone
    /\ frames < limit
    /\ \E j \in 0..MaxPartialReads, last \in {"all", "closed"} :
         LET r == ReadFrame(Empty(frames), DataSize, 0, RecvResults(j, last))
         IN  /\ BufLen(r.data) > 0
             /\ data' = FitToSize(FitToSize(r.data, DataSize), DataSize)
             /\ rcvd' = rcvd + r.got
             /\ peerGone' = (last = "closed")
    /\ frames' = frames + 1
    /\ pc' = "put"
    /\ idle_timeouts' = 0
    /\ UNCHANGED <<running, sessions, client_socket, wire, ending, discards,
                   configVars, audio_queue, dropped, max_drop,
                   writerVars, pushed, atEnd>>
    /\ UNCHANGED <<dropVars, clientVars, lineVars, pipeVars, fifoVars,
                   exit_code>>

RecvFrame == RecvFrameUpTo(MaxFrames)
RecvFrameNoPop == RecvFrameUpTo(MaxNoPopFrames)
RecvFrameEndToEnd == RecvFrameUpTo(MaxEndToEndFrames)
RecvFramePaced == RecvFrameUpTo(MaxPacedFrames)

\* (variant: a frame of silence is queued for the closed connection)
RecvClosed_PadsEmpty ==
    /\ pc = "recv"
    /\ frames < MaxEndToEndFrames
    /\ peerGone' = TRUE
    /\ data' = ZeroPad(Empty(frames), DataSize)
    /\ frames' = frames + 1
    /\ pc' = "put"
    /\ UNCHANGED <<running, sessions, client_socket, wire, ending, rcvd,
                   discards, configVars, audio_queue, dropped, max_drop,
                   writerVars, pushed, atEnd>>
    /\ UNCHANGED <<dropVars, clientVars, auxVars>>

\* recv returns b'' with nothing accumulated: `break`, the session ends
RecvClosed ==
    /\ pc = "recv"
    /\ LET r == ReadFrame(Empty(frames), DataSize, 0, RecvResults(0, "closed"))
       IN  /\ BufLen(r.data) = 0
           /\ r.end = "read"
    /\ peerGone' = TRUE
    /\ pc' = "finally"
    /\ UNCHANGED <<running, sessions, client_socket, wire, ending, rcvd, frames,
                   discards, configVars, audio_queue, recvVars, writerVars, pushed, atEnd>>
    /\ UNCHANGED <<dropVars, clientVars, auxVars>>

\* (variant: a timeout is taken for the end of the stream)
RecvTimeoutUpTo_Break(limit) ==
    /\ pc = "recv"
    /\ ~peerGone
    /\ pc' = "finally"
    /\ UNCHANGED <<running, connVars, configVars, audio_queue, recvVars,
                   writerVars, pushed, atEnd>>
    /\ UNCHANGED <<dropVars, clientVars, auxVars>>

\* a recv raises socket.timeout: `continue`; what the read had accumulated is
\* a local that the next turn starts afresh.  Timeouts in a row that found
\* nothing accumulated are counted as far as limit.
RecvTimeoutUpTo(limit) ==
    /\ pc = "recv"
    /\ ~peerGone
    /\ \E j \in 0..MaxPartialReads :
         LET r == ReadFrame(Empty(frames), DataSize, 0, RecvResults(j, "timeout"))
         IN  /\ r.end = "timeout"
             /\ r.got > 0 => discards < MaxDiscards
             /\ discards' = IF r.got > 0 THEN discards + 1 ELSE discards
             /\ rcvd' = rcvd + r.got
             /\ idle_timeouts' = IF r.got > 0 THEN 0
                                 ELSE IF idle_timeouts < limit
                                 THEN idle_timeouts + 1
                                 ELSE idle_timeouts
    /\ pc' = "loop"
    /\ UNCHANGED <<running, sessions, client_socket, wire, ending, peerGone,
                   frames, configVars, audio_queue, recvVars, writerVars, pushed, atEnd>>
    /\ UNCHANGED <<dropVars, clientVars, lineVars, pipeVars, fifoVars,
                   exit_code>>

RecvTimeout == RecvTimeoutUpTo(0)
RecvTimeoutCounted == RecvTimeoutUpTo(MaxIdleTimeouts)

\* a recv raises socket.error: `break`
RecvError ==
    /\ pc = "recv"
    /\ peerGone' = TRUE
    /\ pc' = "finally"
    /\ UNCHANGED <<running, sessions, client_socket, wire, ending, rcvd, frames,
                   discards, configVars, audio_queue, recvVars, writerVars, pushed, atEnd>>
    /\ UNCHANGED <<dropVars, clientVars, auxVars>>

\* (variant: `except queue.Full: pass`, the new buffer is the one dropped)
Put_DropWhenFull ==
    /\ pc = "put"
    /\ IF ~QueueFull(audio_queue, maxsize)
       THEN /\ audio_queue' = QueuePut(audio_queue, data)
            /\ pushed' = Append(pushed, data)
       ELSE UNCHANGED <<audio_queue, pushed>>
    /\ pc' = "loop"
    /\ UNCHANGED <<running, connVars, configVars, recvVars, writerVars, atEnd>>
    /\ UNCHANGED <<dropVars, clientVars, auxVars>>

\* (variant: put(data), which waits for a free slot)
Put_Blocking ==
    /\ pc = "put"
    /\ ~QueueFull(audio_queue, maxsize)
    /\ audio_queue' = QueuePut(audio_queue, data)
    /\ pushed' = Append(pushed, data)
    /\ pc' = "loop"
    /\ UNCHANGED <<running, connVars, configVars, recvVars, writerVars, atEnd>>
    /\ UNCHANGED <<dropVars, clientVars, auxVars>>

\* self.audio_queue.put_nowait(data)
Put ==
    /\ pc = "put"
    /\ IF ~QueueFull(audio_queue, maxsize)
       THEN /\ audio_queue' = QueuePut(audio_queue, data)
            /\ pushed' = Append(pushed, data)
            /\ pc' = "loop"
       ELSE /\ UNCHANGED <<audio_queue, pushed>>
            /\ pc' = "full"
    /\ UNCHANGED <<running, connVars, configVars, recvVars, writerVars, atEnd>>
    /\ UNCHANGED <<dropVars, clientVars, auxVars>>

\* except queue.Full: dropped = 0, min_buffer, max_drop from qsize()
PutFull ==
    /\ pc = "full"
    /\ overflows' = overflows + 1
    /\ evicted' = evicted
    /\ dropped' = 0
    /\ max_drop' = MaxDrop(Len(audio_queue), quality)
    /\ pc' = "drop"
    /\ UNCHANGED <<running, connVars, configVars, audio_queue, data, writerVars,
                   pushed, atEnd>>
    /\ UNCHANGED <<clientVars, auxVars>>

\* one turn of `while dropped < max_drop`: get_nowait, or queue.Empty: break
DropOldest ==
    /\ pc = "drop"
    /\ IF audio_queue # <<>>
       THEN /\ audio_queue' = QueueGetRest(audio_queue)
            /\ dropped' = dropped + 1
            /\ evicted' = evicted + 1
            /\ pc' = IF dropped + 1 < max_drop THEN "drop" ELSE "put2"
       ELSE /\ UNCHANGED <<audio_queue, dropped, evicted>>
            /\ pc' = "put2"
    /\ overflows' = overflows
    /\ UNCHANGED <<running, connVars, configVars, data, max_drop,
                   writerVars, pushed, atEnd>>
    /\ UNCHANGED <<clientVars, auxVars>>

\* the second put_nowait and, should it raise queue.Full, the last resort:
\* get_nowait and put_nowait again, or `pass` on queue.Empty
PutAfterDrop ==
    /\ pc = "put2"
    /\ IF ~QueueFull(audio_queue, maxsize)
       THEN /\ audio_queue' = QueuePut(audio_queue, data)
            /\ pushed' = Append(pushed, data)
            /\ evicted' = evicted
       ELSE IF audio_queue # <<>>
       THEN /\ audio_queue' = QueuePut(QueueGetRest(audio_queue), data)
            /\ pushed' = Append(pushed, data)
            /\ evicted' = evicted + 1
       ELSE UNCHANGED <<audio_queue, pushed, evicted>>
    /\ overflows' = overflows
    /\ pc' = "loop"
    /\ UNCHANGED <<running, connVars, configVars, recvVars, writerVars, atEnd>>
    /\ UNCHANGED <<clientVars, auxVars>>

\* ServerGUI._stream_audio is stream_audio_from_client with another loop
\* body: the writer thread is started and joined, the loop is left and the
\* first put_nowait is made as there.  Its read is one recv(data_size), which
\* returns what has arrived, data_size bytes at most; what it returns is
\* queued as it is.
GuiRecv ==
    /\ pc = "recv"
    /\ ~peerGone
    /\ frames < MaxGuiFrames
    /\ \E k \in {DataSize, DataSize \div 2} :
         /\ data' = Extend(Empty(frames), k)
         /\ rcvd' = rcvd + k
    /\ frames' = frames + 1
    /\ pc' = "put"
    /\ UNCHANGED <<running, sessions, client_socket, wire, ending, peerGone,
                   discards, configVars, audio_queue, dropped, max_drop,
                   writerVars, pushed, atEnd>>
    /\ UNCHANGED <<dropVars, clientVars, auxVars>>

\* its `except queue.Full:` get_nowait, then put_nowait; queue.Empty from
\* get_nowait is passed over, and with it the put_nowait
GuiEvictAndPut ==
    /\ pc = "full"
    /\ overflows' = overflows + 1
    /\ IF audio_queue # <<>>
       THEN /\ audio_queue' = QueuePut(QueueGetRest(audio_queue), data)
            /\ pushed' = Append(pushed, data)
            /\ evicted' = evicted + 1
       ELSE UNCHANGED <<audio_queue, pushed, evicted>>
    /\ pc' = "loop"
    /\ UNCHANGED <<running, connVars, configVars, recvVars, writerVars, atEnd>>
    /\ UNCHANGED <<clientVars, auxVars>>

\* finally: self.running = False
StreamFinally ==
    /\ pc = "finally"
    /\ running' = FALSE
    /\ atEnd' = audio_queue
    /\ pc' = "join"
    /\ UNCHANGED <<connVars, configVars, audio_queue, recvVars, writerVars,
                   pushed>>
    /\ UNCHANGED <<dropVars, clientVars, auxVars>>

\* writer_thread.join(timeout=3) returns because the writer has ended
JoinWriter ==
    /\ pc = "join"
    /\ wpc = "done"
    /\ pc' = "close"
    /\ UNCHANGED <<running, connVars, configVars, audio_queue, recvVars,
                   writerVars, pushed, atEnd>>
    /\ UNCHANGED <<dropVars, clientVars, auxVars>>

\* join returns after 3 s with the writer still alive.  The writer's only
\* unbounded waits are open() and write() on the pipe (get waits 20 ms at
\* most and at most maxsize buffers are left), so that is where it is.
JoinTimeout ==
    /\ pc = "join"
    /\ wpc \in {"open", "write", "rest"}
    /\ pc' = "close"
    /\ UNCHANGED <<running, connVars, configVars, audio_queue, recvVars,
                   writerVars, pushed, atEnd>>
    /\ UNCHANGED <<dropVars, clientVars, auxVars>>

(* ----------------- the SinkWriter: audio_writer_thread ---------------- *)
\* flush_interval = 3 if self.quality == 'low_latency' else 5
FlushInterval(q) == IF q = LOW_LATENCY THEN 3 ELSE 5

\* the finally block: self.pipe_file.close() when a file was opened
WriterFinally(f) == IF f = "open" THEN "closed" ELSE f

\* the finally block: os.remove and os.mkfifo when the FIFO exists, and
\* `except: pass`
RecreatedByWriter(exists, fails) == IF exists THEN ~fails ELSE exists

\* bytes lo+1..hi of buffer b
Piece(b, lo, hi) == [b |-> b, lo |-> lo, hi |-> hi]

\* results of write(remaining) short of len(remaining), rem bytes remaining
PartialResults(rem) == {k \in {1, rem \div 2} : k >= 1 /\ k < rem}

\* (variant: any result of the first write is taken for a complete write)
WriteComplete_Always(bytes_written, len) == TRUE
\* not `bytes_written < len(audio_data)`, and not `while remaining`
WriteComplete(bytes_written, len) == ~(bytes_written < len)

\* (variant: flush after every write)
FlushDue_EveryWrite(count, q) == TRUE
\* self.write_count % flush_interval == 0
FlushDue(count, q) == count % FlushInterval(q) = 0

\* write_count += 1 and the periodic flush, after a frame has been written
Counted ==
    /\ sink' = Append(sink, audio_data)
    /\ write_count' = write_count + 1
    /\ flush_at' = IF FlushDue(write_count + 1, quality)
                   THEN Append(flush_at, write_count + 1)
                   ELSE flush_at
    /\ remaining' = 0
    /\ wpc' = "loop"
    /\ UNCHANGED <<wexit, pipe_file, pipe_exists>>

\* the write raises (a closed file, a pipe without reader): `break`, finally
WriteFails ==
    /\ wexit' = "write_error"
    /\ pipe_file' = WriterFinally(pipe_file)
    /\ pipe_exists' = RecreatedByWriter(pipe_exists, mkfifo_fails)
    /\ wpc' = "done"
    /\ UNCHANGED <<sink, write_count, pipe, remaining, partial_writes, flush_at>>

\* open(self.pipe_path, 'wb') returns
WriterOpen ==
    /\ wpc = "open"
    /\ pipe_file' = "open"
    /\ wpc' = "loop"
    /\ UNCHANGED <<pc, running, connVars, configVars, audio_queue, recvVars,
                   wexit, audio_data, last_audio_data, write_count, repeats,
                   sink, pushed, atEnd>>
    /\ UNCHANGED <<dropVars, clientVars, auxVars>>

\* open raises: the thread returns
WriterOpenFails ==
    /\ wpc = "open"
    /\ wexit' = "open_error"
    /\ pipe_file' = WriterFinally(pipe_file)
    /\ pipe_exists' = RecreatedByWriter(pipe_exists, mkfifo_fails)
    /\ wpc' = "done"
    /\ UNCHANGED <<pc, running, connVars, configVars, audio_queue, recvVars,
                   audio_data, last_audio_data, write_count, repeats, sink, pushed, atEnd>>
    /\ UNCHANGED <<dropVars, clientVars, lineVars, idle_timeouts, pipeVars,
                   mkfifo_fails, exit_code>>

\* (variant: `while self.running:`)
WriterLoop_RunningOnly ==
    /\ wpc = "loop"
    /\ IF running
       THEN /\ wpc' = "get"
            /\ UNCHANGED <<wexit, pipe_file, pipe_exists>>
       ELSE /\ wpc' = "done"
            /\ wexit' = "normal"
            /\ pipe_file' = WriterFinally(pipe_file)
            /\ pipe_exists' = RecreatedByWriter(pipe_exists, mkfifo_fails)
    /\ UNCHANGED <<pc, running, connVars, configVars, audio_queue, recvVars,
                   audio_data, last_audio_data, write_count, repeats, sink,
                   pushed, atEnd>>
    /\ UNCHANGED <<dropVars, clientVars, lineVars, idle_timeouts, pipeVars,
                   mkfifo_fails, exit_code>>

\* `while self.running or not self.audio_queue.empty():`
WriterLoop ==
    /\ wpc = "loop"
    /\ IF running \/ audio_queue # <<>>
       THEN /\ wpc' = "get"
            /\ UNCHANGED <<wexit, pipe_file, pipe_exists>>
       ELSE /\ wpc' = "done"
            /\ wexit' = "normal"
            /\ pipe_file' = WriterFinally(pipe_file)
            /\ pipe_exists' = RecreatedByWriter(pipe_exists, mkfifo_fails)
    /\ UNCHANGED <<pc, running, connVars, configVars, audio_queue, recvVars,
                   audio_data, last_audio_data, write_count, repeats, sink, pushed, atEnd>>
    /\ UNCHANGED <<dropVars, clientVars, lineVars, idle_timeouts, pipeVars,
                   mkfifo_fails, exit_code>>

\* audio_queue.get(timeout) returns a buffer
WriterGet ==
    /\ wpc = "get"
    /\ audio_queue # <<>>
    /\ audio_data' = QueueGetItem(audio_queue)
    /\ last_audio_data' = QueueGetItem(audio_queue)
    /\ audio_queue' = QueueGetRest(audio_queue)
    /\ wpc' = "write"
    /\ UNCHANGED <<pc, running, connVars, configVars, recvVars, wexit,
                   pipe_file,
                   write_count, repeats, sink, pushed, atEnd>>
    /\ UNCHANGED <<dropVars, clientVars, auxVars>>

\* (variant: queue.Empty always ends in `continue`, nothing is repeated)
WriterGetTimeout_Skip ==
    /\ wpc = "get"
    /\ audio_queue = <<>>
    /\ wpc' = "loop"
    /\ UNCHANGED <<pc, running, connVars, configVars, audio_queue, recvVars,
                   wexit, pipe_file, audio_data, last_audio_data, write_count,
                   repeats, sink, pushed, atEnd>>
    /\ UNCHANGED <<dropVars, clientVars, auxVars>>

\* audio_queue.get(timeout) raises queue.Empty: repeat the last frame, or
\* `continue` when there is none
WriterGetTimeout ==
    /\ wpc = "get"
    /\ audio_queue = <<>>
    /\ IF Truthy(last_audio_data)
       THEN /\ repeats < MaxRepeats
            /\ repeats' = repeats + 1
            /\ audio_data' = last_audio_data
            /\ wpc' = "write"
       ELSE /\ UNCHANGED <<repeats, audio_data>>
            /\ wpc' = "loop"
    /\ UNCHANGED <<pc, running, connVars, configVars, audio_queue, recvVars,
                   wexit, pipe_file, last_audio_data, write_count, sink, pushed, atEnd>>
    /\ UNCHANGED <<dropVars, clientVars, auxVars>>

\* self.pipe_file.write(audio_data) takes the whole buffer (what the
\* BufferedWriter that open(..., 'wb', buffering=4096) returns does), then the
\* count and the flush; on a file that run has closed or set to None the
\* write raises and the thread breaks out
WriterWrite ==
    /\ wpc = "write"
    /\ IF pipe_file = "open"
       THEN /\ WriteComplete(BufLen(audio_data), BufLen(audio_data))
            /\ pipe' = <<Piece(audio_data, 0, BufLen(audio_data))>>
            /\ partial_writes' = partial_writes
            /\ Counted
       ELSE WriteFails
    /\ UNCHANGED <<pc, running, connVars, configVars, audio_queue, recvVars,
                   audio_data, last_audio_data, repeats, pushed, atEnd>>
    /\ UNCHANGED <<dropVars, clientVars, lineVars, idle_timeouts,
                   mkfifo_fails, exit_code>>

\* the first write of a frame on a sink that takes only part of it
WriterWritePartial ==
    /\ wpc = "write"
    /\ pipe_file = "open"
    /\ partial_writes < MaxPartialWrites
    /\ \E bytes_written \in PartialResults(BufLen(audio_data)) :
         /\ pipe' = <<Piece(audio_data, 0, bytes_written)>>
         /\ partial_writes' = partial_writes + 1
         /\ IF WriteComplete(bytes_written, BufLen(audio_data))
            THEN Counted
            ELSE /\ remaining' = BufLen(audio_data) - bytes_written
                 /\ wpc' = "rest"
                 /\ UNCHANGED <<sink, write_count, flush_at, wexit, pipe_file,
                                pipe_exists>>
    /\ UNCHANGED <<pc, running, connVars, configVars, audio_queue, recvVars,
                   audio_data, last_audio_data, repeats, pushed, atEnd>>
    /\ UNCHANGED <<dropVars, clientVars, lineVars, idle_timeouts,
                   mkfifo_fails, exit_code>>

\* one turn of `while remaining:`: written = write(remaining), then
\* remaining = remaining[written:]
WriterWriteRemaining ==
    /\ wpc = "rest"
    /\ IF pipe_file = "open"
       THEN \E written \in PartialResults(remaining) \cup {remaining} :
              /\ written < remaining => partial_writes < MaxPartialWrites
              /\ pipe' = Append(pipe, Piece(audio_data,
                                            BufLen(audio_data) - remaining,
                                            BufLen(audio_data) - remaining + written))
              /\ partial_writes' = IF written < remaining
                                    THEN partial_writes + 1
                                    ELSE partial_writes
              /\ IF WriteComplete(written, remaining)
                 THEN Counted
                 ELSE /\ remaining' = remaining - written
                      /\ wpc' = "rest"
                      /\ UNCHANGED <<sink, write_count, flush_at, wexit,
                                     pipe_file, pipe_exists>>
       ELSE WriteFails
    /\ UNCHANGED <<pc, running, connVars, configVars, audio_queue, recvVars,
                   audio_data, last_audio_data, repeats, pushed, atEnd>>
    /\ UNCHANGED <<dropVars, clientVars, lineVars, idle_timeouts,
                   mkfifo_fails, exit_code>>

\* a write raises BrokenPipeError (the reader of the pipe went away)
WriterBrokenPipe ==
    /\ wpc \in {"write", "rest"}
    /\ WriteFails
    /\ UNCHANGED <<pc, running, connVars, configVars, audio_queue, recvVars,
                   audio_data, last_audio_data, repeats, pushed, atEnd>>
    /\ UNCHANGED <<dropVars, clientVars, lineVars, idle_timeouts,
                   mkfifo_fails, exit_code>>

\* SIGINT or SIGTERM: signal_handler runs in the main thread, calls cleanup
\* (running = False, the sockets and pipe_file closed, the FIFO removed) and
\* sys.exit(0).  SystemExit passes every `except Exception`; inside
\* stream_audio_from_client the finally block runs on its way out.
Signal ==
    /\ pc # "exited"
    /\ pc # "join_exit"
    /\ running' = FALSE
    /\ client_socket' = "none"
    /\ pipe_file' = WriterFinally(pipe_file)
    /\ pipe_exists' = FALSE
    /\ IF pc \in {"loop", "recv", "put", "full", "drop", "put2", "finally"}
       THEN /\ pc' = "join_exit"
            /\ atEnd' = audio_queue
            /\ UNCHANGED exit_code
       ELSE /\ pc' = "exited"
            /\ exit_code' = ExitStatus(TRUE)
            /\ UNCHANGED atEnd
    /\ UNCHANGED <<sessions, wire, ending, peerGone, rcvd, frames, discards,
                   configVars, audio_queue, recvVars, wpc, wexit, audio_data,
                   last_audio_data, write_count, repeats, sink, pushed>>
    /\ UNCHANGED <<dropVars, clientVars, lineVars, idle_timeouts, pipeVars,
                   mkfifo_fails>>

\* writer_thread.join(timeout=3) in the finally block that SystemExit passes
\* through: it returns when the writer has ended or, with the writer blocked,
\* after 3 s; then the process exits with status 0
JoinExiting ==
    /\ pc = "join_exit"
    /\ wpc \in {"done", "open", "write", "rest"}
    /\ pc' = "exited"
    /\ exit_code' = ExitStatus(TRUE)
    /\ UNCHANGED <<running, connVars, configVars, audio_queue, recvVars,
                   writerVars, pushed, atEnd>>
    /\ UNCHANGED <<dropVars, clientVars, lineVars, idle_timeouts, pipeVars,
                   fifoVars>>

\* from now on os.mkfifo raises (the path taken by another file, no space
\* left, the directory's permissions changed)
MkfifoBreaks ==
    /\ ~mkfifo_fails
    /\ mkfifo_fails' = TRUE
    /\ UNCHANGED <<pc, running, connVars, configVars, audio_queue, recvVars,
                   writerVars, pushed, atEnd>>
    /\ UNCHANGED <<dropVars, clientVars, lineVars, idle_timeouts, pipeVars,
                   pipe_exists, exit_code>>

\* the process exits once run has returned: a daemon thread still alive ends
\* with it
ProcessExit ==
    /\ pc = "exited"
    /\ wpc \notin {"idle", "done"}
    /\ wpc' = "done"
    /\ wexit' = "killed"
    /\ UNCHANGED <<pc, running, connVars, configVars, audio_queue, recvVars,
                   pipe_file, audio_data, last_audio_data, write_count, repeats,
                   sink, pushed, atEnd>>
    /\ UNCHANGED <<dropVars, clientVars, auxVars>>

Receiver ==
    \/ StartWriter \/ RecvLoop \/ RecvFrame \/ RecvClosed \/ RecvTimeout
    \/ RecvError \/ Put \/ PutFull \/ DropOldest \/ PutAfterDrop
    \/ StreamFinally \/ JoinWriter \/ JoinTimeout

SinkWriter ==
    \/ WriterOpen \/ WriterOpenFails \/ WriterLoop \/ WriterGet
    \/ WriterGetTimeout \/ WriterWrite \/ WriterBrokenPipe \/ ProcessExit

SessionLoop == AcceptClient \/ AcceptTimeout \/ ReceiveAudioConfig \/ CloseSession

Next == SessionLoop \/ Receiver \/ SinkWriter

Spec == Init /\ [][Next]_vars

\* The same server with no application reading the pipe: the writer thread
\* stays blocked in open() and nothing is ever popped.
NextNoPop ==
    \/ SessionLoop
    \/ StartWriter \/ RecvLoop \/ RecvFrameNoPop \/ RecvClosed \/ RecvTimeout
    \/ RecvError \/ Put \/ PutFull \/ DropOldest \/ PutAfterDrop
    \/ StreamFinally \/ JoinTimeout \/ ProcessExit

SpecNoPop == Init /\ [][NextNoPop]_vars

\* The end-to-end scenario: the server with a low_latency client that sends
\* frames and disconnects, the writer running, stalling and failing as it may.
NextEndToEnd ==
    \/ AcceptEndToEnd \/ AcceptTimeout \/ ReceiveAudioConfig \/ CloseSession
    \/ StartWriter \/ RecvLoop \/ RecvFrameEndToEnd \/ RecvClosed \/ RecvTimeout
    \/ RecvError \/ Put \/ PutFull \/ DropOldest \/ PutAfterDrop
    \/ StreamFinally \/ JoinWriter \/ JoinTimeout
    \/ SinkWriter

SpecEndToEnd == Init /\ [][NextEndToEnd]_vars

\* The same client sending two frames without a pause and closing (the queue
\* never fills), and a sink whose write may take only part of what it is
\* given.
NextPartialWrites ==
    \/ AcceptEndToEnd \/ AcceptTimeout \/ ReceiveAudioConfig \/ CloseSession
    \/ StartWriter \/ RecvLoop \/ RecvFramePaced \/ RecvClosed
    \/ Put \/ StreamFinally \/ JoinWriter \/ JoinTimeout
    \/ SinkWriter \/ WriterWritePartial \/ WriterWriteRemaining

SpecPartialWrites == Init /\ [][NextPartialWrites]_vars

\* The same client pausing before and between its two frames, the recv
\* timeouts that find nothing accumulated counted.
NextIdle ==
    \/ AcceptEndToEnd \/ AcceptTimeout \/ ReceiveAudioConfig \/ CloseSession
    \/ StartWriter \/ RecvLoop \/ RecvFramePaced \/ RecvClosed
    \/ RecvTimeoutCounted \/ RecvError \/ Put \/ StreamFinally \/ JoinWriter
    \/ JoinTimeout \/ SinkWriter

SpecIdle == Init /\ [][NextIdle]_vars

\* The same client and a sink that takes every write, with SIGINT or SIGTERM
\* arriving at any moment.
NextShutdown ==
    \/ AcceptEndToEnd \/ AcceptTimeout \/ ReceiveAudioConfig \/ CloseSession
    \/ StartWriter \/ RecvLoop \/ RecvFramePaced \/ RecvClosed \/ RecvTimeout
    \/ RecvError \/ Put \/ StreamFinally \/ JoinWriter \/ JoinTimeout
    \/ WriterOpen \/ WriterLoop \/ WriterGet \/ WriterGetTimeout \/ WriterWrite
    \/ ProcessExit \/ Signal \/ JoinExiting

SpecShutdown == Init /\ [][NextShutdown]_vars

\* The same client and sink, in a file system where os.mkfifo may start to
\* fail.
NextSinkLost ==
    \/ AcceptEndToEnd \/ AcceptTimeout \/ ReceiveAudioConfig \/ CloseSession
    \/ StartWriter \/ RecvLoop \/ RecvFramePaced \/ RecvClosed \/ RecvTimeout
    \/ RecvError \/ Put \/ StreamFinally \/ JoinWriter \/ JoinTimeout
    \/ SinkWriter \/ MkfifoBreaks

SpecSinkLost == Init /\ [][NextSinkLost]_vars

\* The GUI server with one client: ServerGUI._run_server makes the calls run
\* makes, with _stream_audio in the place of stream_audio_from_client.
NextGui ==
    \/ AcceptEndToEnd \/ ReceiveAudioConfig \/ CloseSession
    \/ StartWriter \/ RecvLoop \/ GuiRecv \/ RecvClosed \/ RecvError
    \/ Put \/ GuiEvictAndPut \/ StreamFinally \/ JoinWriter \/ JoinTimeout
    \/ SinkWriter

SpecGui == Init /\ [][NextGui]_vars

\* Handshakes with clients that send their line one byte at a time: run
\* accepts, calls receive_audio_config and, when that fails, closes the
\* connection and listens again.
NextPacedHandshake == AcceptPaced \/ ReceiveAudioConfig \/ CloseSession

SpecPacedHandshake == Init /\ [][NextPacedHandshake]_vars

\* The handshake between a MicStreamClient and the server: the client is
\* constructed with any arguments in the server's ranges, may have its
\* sample rate and quality set, and sends its config line; the server accepts
\* the connection and runs receive_audio_config on what was sent.
InitHandshake ==
    /\ ServerInit
    /\ \E args \in ValidArgs : ClientCreated(args, 4, TRUE)

NextHandshake ==
    \/ SetSampleRate \/ SetQuality \/ SendAudioConfig
    \/ AcceptSender \/ ReceiveAudioConfig

SpecHandshake == InitHandshake /\ [][NextHandshake]_vars

\* The Sender: a client constructed with a small chunk_size and any volume,
\* with or without numpy, that sends its config and streams, while set_volume
\* is called from the control surface.
InitSender ==
    /\ ServerInit
    /\ \E cs \in 1..MaxChunkSize, vol \in VolumeArgs, numpy \in BOOLEAN :
         ClientCreated([DefaultArgs EXCEPT !.chunk_size = cs], vol, numpy)

NextSender ==
    \/ SendAudioConfig \/ StartStream \/ StreamRead \/ CheckSize \/ GainCheck
    \/ ScaleNumpy \/ ScaleStruct \/ SendAll \/ SendError \/ StreamLoop
    \/ SetVolume

SpecSender == InitSender /\ [][NextSender]_vars

(* ============================== properties ============================ *)
\* frameBytes of the negotiated config
FrameBytes == chunk_size * channels * 2

\* the Receiver is between a frame read and the end of its push
Pushing == pc \in {"put", "full", "drop", "put2"}

\* consecutive repetitions removed
RECURSIVE Collapse(_)
Collapse(q) ==
    IF Len(q) <= 1 THEN q
    ELSE IF q[1] = q[2] THEN Collapse(Tail(q))
    ELSE <<q[1]>> \o Collapse(Tail(q))

\* a is b with some elements left out
RECURSIVE IsSubseq(_, _)
IsSubseq(a, b) ==
    IF a = <<>> THEN TRUE
    ELSE IF b = <<>> THEN FALSE
    ELSE IF Head(a) = Head(b) THEN IsSubseq(Tail(a), Tail(b))
    ELSE IsSubseq(a, Tail(b))

\* the last k elements of q
LastN(q, k) == SubSeq(q, Len(q) - k + 1, Len(q))

(* C1: every buffer put on audio_queue, every buffer queued and every buffer
   written to the pipe is exactly chunk_size * channels * 2 bytes long; a
   short accumulation carries its zero padding at the tail. *)
C1_ExactFrameLength ==
    /\ \A i \in DOMAIN pushed : BufLen(pushed[i]) = FrameBytes
    /\ \A i \in DOMAIN audio_queue : BufLen(audio_queue[i]) = FrameBytes
    /\ \A i \in DOMAIN sink : BufLen(sink[i]) = FrameBytes
    /\ Pushing => BufLen(data) = FrameBytes
    /\ wpc = "write" => BufLen(audio_data) = FrameBytes

\* a frame cut short by the peer's close has been padded and written
C1_Witness ==
    \E i \in DOMAIN sink :
        /\ sink[i].pad > 0
        /\ sink[i].n > 0
        /\ sink[i].n + sink[i].pad = FrameBytes

(* C2: what the writer has written, repetitions of the last frame collapsed,
   is what the Receiver pushed with some buffers left out: same order, never
   a buffer that was not pushed. *)
C2_WrittenInArrivalOrder == IsSubseq(Collapse(sink), pushed)

\* an evicted buffer is missing from the sink, a later one was written and
\* then repeated on an underrun
C2_Witness ==
    /\ Len(sink) >= 3
    /\ \E i \in DOMAIN pushed :
           /\ \A j \in DOMAIN sink : sink[j] # pushed[i]
           /\ pushed[i].id < sink[1].id
    /\ \E j \in 1..(Len(sink) - 1) : sink[j] = sink[j + 1]

(* C3: when a push completes, the buffer the Receiver normalized is the
   newest element of audio_queue, whichever of the put_nowait paths it took
   and whatever the writer popped meanwhile. *)
C3_NewestAlwaysQueued ==
    [][(Pushing /\ ~Pushing')
           => /\ audio_queue' # <<>>
              /\ Last(audio_queue') = data
              /\ pushed' = Append(pushed, data)]_vars

\* a push that found the queue full, whose drop loop then met queue.Empty
\* because the writer had drained the queue, and that still queued its buffer
C3_Witness ==
    /\ pc = "loop"
    /\ max_drop > 0
    /\ dropped < max_drop
    /\ audio_queue # <<>>
    /\ Last(audio_queue) = data

(* C4: after a streaming session has ended with no shutdown requested, run
   goes back to accept. *)
C4_ServesNextSession ==
    [][(pc = "close" /\ wpc # "idle") => pc' = "accept"]_vars

\* minBuffer and capacity as the specification gives them
SpecMinBuffer == IF quality = LOW_LATENCY THEN 2 ELSE 3
SpecCapacity ==
    IF quality = LOW_LATENCY THEN 3 ELSE IF quality = HIGH_QUALITY THEN 8 ELSE 5

(* C5: with nothing popped, a put on a queue that is not full appends and
   removes nothing; a put on a full queue removes capacity - minBuffer
   buffers, leaves the minBuffer most recently queued ones in their order and
   appends the new buffer at the tail. *)
C5_EvictDownToMinBuffer ==
    [][/\ (pc = "put" /\ pc' = "loop")
              => audio_queue' = Append(audio_queue, data)
       /\ (pc = "put" /\ pc' = "full")
              => /\ Len(audio_queue) = maxsize
                 /\ audio_queue = LastN(pushed, maxsize)
       /\ pc = "put2"
              => /\ dropped = maxsize - SpecMinBuffer
                 /\ audio_queue = LastN(pushed, SpecMinBuffer)
                 /\ audio_queue' = Append(audio_queue, data)]_vars

\* a balanced queue that overflowed: 2 of 5 dropped, 3 kept, the new one added
C5_Witness ==
    /\ quality = BALANCED
    /\ pc = "loop"
    /\ dropped = 2
    /\ Len(audio_queue) = 4
    /\ Last(audio_queue) = data
    /\ audio_queue = LastN(pushed, 4)

\* capacity + k buffers have been pushed, k >= 1, and no push is under way
C6_Overflowed == ~Pushing /\ Len(pushed) >= SpecCapacity + 1
C6_Min(a, b) == IF a < b THEN a ELSE b

(* C6, as stated: with nothing popped, after capacity + k pushes (k >= 1) the
   queue holds exactly min(capacity, minBuffer + 1) buffers, the newest
   last. *)
C6_SizeAfterOverflow_Stated ==
    C6_Overflowed
        => /\ Len(audio_queue) = C6_Min(SpecCapacity, SpecMinBuffer + 1)
           /\ Last(audio_queue) = Last(pushed)

(* C6, amended: with nothing popped, after capacity + k pushes (k >= 1) the
   queue holds minBuffer + 1 + ((k - 1) mod (capacity - minBuffer)) buffers,
   which is min(capacity, minBuffer + 1) for k = 1, and the newest pushed
   buffer is its last element. *)
C6_SizeAfterOverflow ==
    C6_Overflowed
        => /\ Len(audio_queue) =
                  SpecMinBuffer + 1
                  + ((Len(pushed) - SpecCapacity - 1)
                         % (SpecCapacity - SpecMinBuffer))
           /\ Last(audio_queue) = Last(pushed)
           /\ maxsize = SpecCapacity

\* high_quality, capacity 8, after 8 + 6 pushes: the queue went 4, 5, 6, 7,
\* 8 and has just overflowed a second time
C6_Witness ==
    /\ quality = HIGH_QUALITY
    /\ ~Pushing
    /\ Len(pushed) = 14
    /\ dropped = 5
    /\ Len(audio_queue) = 4

(* C7: the writer leaves its loop by the loop condition only when running is
   false and audio_queue is empty, and by then every buffer that was queued
   when the Receiver ended the session has been written to the pipe. *)
C7_DrainsBeforeExit ==
    wexit = "normal"
        => /\ ~running
           /\ audio_queue = <<>>
           /\ \A i \in DOMAIN atEnd : \E j \in DOMAIN sink : sink[j] = atEnd[i]

\* the session ended with buffers still queued and the writer wrote them all
C7_Witness ==
    /\ wexit = "normal"
    /\ Len(atEnd) >= 2
    /\ Len(sink) >= 2

(* C8: on a get timeout the writer, if it has popped a buffer before, goes on
   to write that same buffer, unchanged and frameBytes long, and otherwise
   writes nothing in that cycle; every write appends the chosen buffer as it
   is, never an empty one. *)
C8_RepeatsLastFrame ==
    [][/\ (wpc = "get" /\ audio_queue = <<>> /\ wpc' # "get" /\ wexit' = wexit)
              => IF last_audio_data = None
                 THEN wpc' = "loop" /\ sink' = sink
                 ELSE /\ wpc' = "write"
                      /\ audio_data' = last_audio_data
                      /\ last_audio_data' = last_audio_data
                      /\ BufLen(audio_data') = FrameBytes
       /\ sink' # sink
              => /\ sink' = Append(sink, audio_data)
                 /\ BufLen(audio_data) = FrameBytes]_vars

\* two timeouts in a row: the same buffer written three times
C8_Witness ==
    \E j \in 1..(Len(sink) - 2) :
        /\ sink[j] = sink[j + 1]
        /\ sink[j] = sink[j + 2]
        /\ BufLen(sink[j]) = FrameBytes

\* the handshake line as the code names it: the text up to the newline,
\* stripped
C9_Line(w) == Strip(ReadConfigLine(w, "stall", <<>>).buffer)
C9_Fields(w) == Split(C9_Line(w), COLON)
C9_Complete(w) == NL \in Range(w)
C9_Malformed(w) ==
    LET f == C9_Fields(w)
        v(i) == ParseInt(f[i]).val
    IN  \/ ~StartsWith(C9_Line(w), S_PREFIX)
        \/ Len(f) < 4
        \/ \E i \in 2..4 : ~ParseInt(f[i]).ok
        \/ ~(8000 <= v(2) /\ v(2) <= 96000)
        \/ ~(1 <= v(3) /\ v(3) <= 2)
        \/ ~(64 <= v(4) /\ v(4) <= 4096)

(* C9: receive_audio_config fails for every line without the CONFIG: prefix,
   with fewer than 4 fields, with a numeric field that is no integer, or with
   sampleRate outside 8000..96000, channels outside 1..2 or frameSize outside
   64..4096; neither the Receiver nor the writer is started. *)
C9_RejectsMalformed ==
    [][(pc = "config" /\ C9_Complete(wire) /\ C9_Malformed(wire))
           => /\ pc' = "close"
              /\ wpc' = "idle"
              /\ pushed' = <<>>]_vars

\* a line with frameSize 4097 has been rejected (the value was assigned
\* before the range check)
C9_Witness ==
    /\ pc = "close"
    /\ wpc = "idle"
    /\ chunk_size = 4097

(* C10: after a handshake that fails (malformed line, peer close or timeout)
   nothing is streamed, run closes the client socket and goes back to accept
   with running still true. *)
C10_RejectAndKeepListening ==
    [][/\ (pc = "config" /\ pc' # "start")
              => pc' = "close" /\ wpc' = "idle" /\ running'
       /\ (pc = "close" /\ wpc = "idle")
              => /\ pc' = "accept"
                 /\ client_socket' = "none"
                 /\ running']_vars

\* the second client is streaming after the first was rejected
C10_Witness ==
    /\ sessions = 2
    /\ pc = "recv"
    /\ Len(sink) > 0

(* C11: the line send_audio_config emits for a config with sampleRate in
   8000..96000, channels in 1..2, frameSize in 64..4096 and one of the three
   qualities is accepted by receive_audio_config, which leaves the server with
   the same four values. *)
C11_HandshakeRoundTrip ==
    (cpc = "configured" /\ pc \in {"start", "close"})
        => /\ pc = "start"
           /\ sample_rate = c_sample_rate
           /\ channels = c_channels
           /\ chunk_size = c_chunk_size
           /\ quality = c_quality
           /\ maxsize = QueueMaxsize(c_quality)

\* the largest config, after set_quality had clamped it and set_sample_rate
\* raised the rate again
C11_Witness ==
    /\ pc = "start"
    /\ cpc = "configured"
    /\ sample_rate = 96000
    /\ channels = 2
    /\ chunk_size = 128
    /\ quality = LOW_LATENCY

(* C12: when the peer closes after n bytes of the frame being read, 0 < n <
   frameBytes, the Receiver goes on to push one buffer made of those n bytes
   and frameBytes - n zero bytes; once the peer is gone nothing more is pushed
   and the next recv ends the loop. *)
C12_FinalPaddedFrame ==
    [][/\ (pc = "recv" /\ peerGone' /\ rcvd' > rcvd)
              => /\ pc' = "put"
                 /\ rcvd' - rcvd < FrameBytes
                 /\ data' = [id |-> frames, n |-> rcvd' - rcvd,
                             pad |-> FrameBytes - (rcvd' - rcvd)]
       /\ (Pushing /\ ~Pushing') => pushed' = Append(pushed, data)
       /\ (peerGone /\ ~Pushing)
              => /\ pushed' = pushed
                 /\ (pc = "recv" /\ pc' # "recv") => pc' = "finally"]_vars

\* two whole frames, then half a frame and the close: the padded half frame
\* is the last buffer pushed and the session has ended
C12_Witness ==
    /\ pc = "close"
    /\ peerGone
    /\ Len(pushed) = 3
    /\ pushed[1].pad = 0
    /\ pushed[2].pad = 0
    /\ pushed[3].n > 0
    /\ pushed[3].pad = FrameBytes - pushed[3].n
    /\ pushed[3].pad > 0

\* the captured chunk brought to the frame size, and its samples
C13_Padded ==
    IF Len(captured) < ExpectedSize
    THEN captured \o Zeros(ExpectedSize - Len(captured))
    ELSE SubSeq(captured, 1, ExpectedSize)
C13_Samples == Unpack(C13_Padded)
\* every read of self.volume made for the frame gave g
C13_GainWas(g) == reads # <<>> /\ \A i \in DOMAIN reads : reads[i] = g

(* C13: a frame sent with gain g other than 1.0 carries, for every sample s
   of the padded chunk, s * g clamped to -32768..32767, on the numpy path
   and on the struct path. *)
C13_GainClamps ==
    \A g \in 0..8 :
        (cpc = "sent" /\ g # 4 /\ C13_GainWas(g))
            => payload = Pack([i \in DOMAIN C13_Samples |->
                                  IF C13_Samples[i] * g > 4 * 32767 THEN 32767
                                  ELSE IF C13_Samples[i] * g < 0 - 4 * 32768
                                  THEN 0 - 32768
                                  ELSE TruncDiv(C13_Samples[i] * g, 4)])

(* C14: the gain check and the scaling of every sample of one frame use one
   and the same value of self.volume. *)
C14_OneGainPerFrame ==
    cpc \in {"send", "sent"} => \A i, j \in DOMAIN reads : reads[i] = reads[j]

(* C15, as stated: every payload passed to sendall is frameBytes long, and
   every captured chunk of n bytes, 0 <= n < frameBytes, goes on to the gain
   step as the chunk followed by frameBytes - n zero bytes and is sent. *)
C15_PadsShortChunks_Stated ==
    [][/\ payload' # payload /\ payload' # <<>>
              => Len(payload') = ExpectedSize
       /\ (cpc = "got" /\ cpc' # "got" /\ Len(captured) < ExpectedSize)
              => /\ cpc' = "check"
                 /\ c_data' = captured \o Zeros(ExpectedSize - Len(captured))
       /\ (cpc = "send" /\ cpc' = "sent" /\ reads = <<4>>)
              => payload' = C13_Padded]_vars

(* C15, amended: every payload passed to sendall is frameBytes long; every
   captured chunk of n bytes, 0 < n < frameBytes, goes on to the gain step as
   the chunk followed by frameBytes - n zero bytes and is sent (unchanged when
   the gain is 1.0); for an empty chunk the loop turn ends with nothing
   sent. *)
C15_PadsShortChunks ==
    [][/\ payload' # payload /\ payload' # <<>>
              => Len(payload') = ExpectedSize
       /\ (cpc = "got" /\ cpc' # "got" /\ captured # <<>>
               /\ Len(captured) < ExpectedSize)
              => /\ cpc' = "check"
                 /\ c_data' = captured \o Zeros(ExpectedSize - Len(captured))
       /\ (cpc = "got" /\ cpc' # "got" /\ captured = <<>>)
              => /\ cpc' = "read"
                 /\ payload' = <<>>
                 /\ frame_count' = frame_count
       /\ (cpc = "send" /\ cpc' = "sent" /\ reads = <<4>>)
              => payload' = C13_Padded
       /\ frame_count' # frame_count
              => /\ frame_count' = frame_count + 1
                 /\ captured # <<>>
                 /\ payload' = c_data
                 /\ Len(c_data) = ExpectedSize]_vars

\* three bytes captured for a frame of four: sent with one zero byte added
C15_Witness ==
    /\ cpc = "sent"
    /\ ExpectedSize = 4
    /\ Len(captured) = 3
    /\ reads = <<4>>
    /\ payload = captured \o <<0>>

(* C16: once the writer thread has ended while the session streams, the
   Receiver's next loop test ends its loop; it does not go on to receive. *)
C16_WriterEndStopsReceiver ==
    [][(pc = "loop" /\ wpc = "done" /\ pc' # "loop") => pc' = "finally"]_vars

(* C18: every handshake receive_audio_config accepts leaves quality as one of
   low_latency, balanced, high_quality. *)
C18_QualityIsOneOfThree ==
    pc = "start" => quality \in {LOW_LATENCY, BALANCED, HIGH_QUALITY}

\* the first newline of w is among its first 256 bytes
C19_NewlineWithinCap(w) == \E k \in 1..256 : k <= Len(w) /\ w[k] = NL

(* C19: receive_audio_config takes at most 256 bytes off the connection; it
   fails when there is no newline among the first 256 bytes; and it accepts
   every otherwise valid line whose newline is at position 1..256. *)
C19_LengthCap ==
    [][(pc = "config" /\ pc' # "config")
           => /\ Len(wire) - Len(wire') <= 256
              /\ ~C19_NewlineWithinCap(wire) => pc' = "close"
              /\ (C19_NewlineWithinCap(wire) /\ ~C9_Malformed(wire))
                     => pc' = "start"]_vars

(* C20: a successful handshake has taken the bytes up to and including the
   first newline and no more: what is left unread, the head of the audio
   stream, starts right after that newline. *)
C20_StopsAtFirstNewline ==
    [][(pc = "config" /\ pc' = "start")
           => \E k \in 1..Len(wire) :
                  /\ wire[k] = NL
                  /\ \A j \in 1..(k - 1) : wire[j] # NL
                  /\ wire' = SubSeq(wire, k + 1, Len(wire))]_vars

\* config line and three audio bytes, the second a 0x0A, sent together: the
\* handshake succeeded and the three bytes are still unread
C20_Witness ==
    /\ pc = "start"
    /\ quality = LOW_LATENCY
    /\ wire = <<"a", NL, "b">>

\* the session was a low_latency one in which the client sent whole frames
\* and closed, every frame was read whole, and the writer ended by its loop
\* condition
C17_Scenario ==
    /\ quality = LOW_LATENCY
    /\ wexit = "normal"
    /\ peerGone
    /\ discards = 0
    /\ \A i \in DOMAIN pushed : pushed[i].pad = 0

(* C17, as stated: in that scenario, with N frames sent, the sink has at
   least N writes, each frameBytes long, and the distinct frames written are
   the frames sent, in order, with at most capacity - minBuffer missing. *)
C17_EndToEnd_Stated ==
    C17_Scenario
        => /\ Len(sink) >= Len(pushed)
           /\ \A j \in DOMAIN sink : BufLen(sink[j]) = FrameBytes
           /\ IsSubseq(Collapse(sink), pushed)
           /\ Len(pushed) - Len(Collapse(sink)) <= SpecCapacity - SpecMinBuffer

(* C17, amended: every write to the sink is frameBytes long; the distinct
   frames written are frames the Receiver pushed, in order; each push that
   found the queue full evicted at most capacity - minBuffer frames; and when
   the writer has ended by its loop condition, the frames written are the
   frames pushed less the evicted ones. *)
C17_EndToEnd ==
    quality = LOW_LATENCY
        => /\ \A j \in DOMAIN sink : BufLen(sink[j]) = FrameBytes
           /\ IsSubseq(Collapse(sink), pushed)
           /\ evicted <= (SpecCapacity - SpecMinBuffer) * overflows
           /\ wexit = "normal"
                  => Len(Collapse(sink)) = Len(pushed) - evicted

\* five frames sent, two of them evicted while the writer stalled, the other
\* three written
C17_Witness ==
    /\ C17_Scenario
    /\ Len(pushed) = 5
    /\ evicted = 2
    /\ Len(Collapse(sink)) = 3

\* a session's handshake has succeeded and run has not yet closed the session
C21_InSession ==
    pc \in {"start", "loop", "recv", "put", "full", "drop", "put2", "finally",
            "join"}

(* C21: when the handshake has succeeded audio_queue is empty and its maxsize
   is 3 for low_latency, 5 for balanced and 8 for high_quality; all through
   the session it holds between 0 and maxsize buffers. *)
C21_QueueWithinCapacity ==
    /\ pc = "start" => audio_queue = <<>>
    /\ C21_InSession
           => /\ quality = LOW_LATENCY => maxsize = 3
              /\ quality = BALANCED => maxsize = 5
              /\ quality = HIGH_QUALITY => maxsize = 8
              /\ Len(audio_queue) >= 0
              /\ Len(audio_queue) <= maxsize

\* a low_latency queue filled to its capacity of 3 while the writer is busy
\* with the first buffer
C21_Witness ==
    /\ quality = LOW_LATENCY
    /\ maxsize = 3
    /\ Len(audio_queue) = 3
    /\ wpc = "write"
    /\ pc = "recv"

\* a complete line of exactly four fields whose three numbers are in range
C22_NoQualityField(line) ==
    LET f == Split(line, COLON)
    IN  /\ StartsWith(line, S_PREFIX)
        /\ Len(f) = 4
        /\ \A i \in 2..4 : ParseInt(f[i]).ok
        /\ ValidSampleRate(ParseInt(f[2]).val)
        /\ ValidChannels(ParseInt(f[3]).val)
        /\ ValidChunkSize(ParseInt(f[4]).val)

(* C22: a CONFIG line with valid sampleRate, channels and frameSize and no
   quality field is accepted, and leaves the server as a balanced line does:
   quality balanced, a queue of capacity 5, minBuffer 3 and a flush interval
   of 5. *)
C22_NoQualityIsBalanced ==
    (pc \in {"start", "close"} /\ C22_NoQualityField(config_line))
        => /\ pc = "start"
           /\ quality = BALANCED
           /\ maxsize = 5
           /\ audio_queue = <<>>
           /\ MinBuffer(quality) = 3
           /\ FlushInterval(quality) = 5
           /\ sample_rate = ParseInt(Split(config_line, COLON)[2]).val
           /\ channels = ParseInt(Split(config_line, COLON)[3]).val
           /\ chunk_size = ParseInt(Split(config_line, COLON)[4]).val

\* CONFIG:8000:2:64 has been accepted
C22_Witness ==
    /\ pc = "start"
    /\ config_line = Join(<<S_CONFIG, NatToStr(8000), NatToStr(2), NatToStr(64)>>, COLON)
    /\ quality = BALANCED
    /\ maxsize = 5

\* the flush interval as the specification gives it
SpecFlushInterval == IF quality = LOW_LATENCY THEN 3 ELSE 5

(* C24: the writer has called flush exactly after the N-th, 2N-th, ...
   completed frame write (repetitions of the last frame counted), N = 3 for
   low_latency and 5 otherwise, and so never more than N - 1 written frames
   are unflushed. *)
C24_FlushEveryNth ==
    /\ write_count = Len(sink)
    /\ flush_at = [i \in 1..(write_count \div SpecFlushInterval)
                       |-> i * SpecFlushInterval]
    /\ write_count - (IF flush_at = <<>> THEN 0 ELSE Last(flush_at))
           <= SpecFlushInterval - 1

\* low_latency: four frames and two repetitions written, flushed after the
\* third and the sixth
C24_Witness ==
    /\ quality = LOW_LATENCY
    /\ flush_at = <<3, 6>>
    /\ Len(sink) = 6
    /\ repeats = 2

\* the pieces the pipe has taken, a piece that continues the one before it
\* joined to it
RECURSIVE C23_Joined(_)
C23_Joined(p) ==
    IF Len(p) <= 1 THEN p
    ELSE LET r == C23_Joined(Tail(p))
         IN  IF p[1].b = r[1].b /\ p[1].hi = r[1].lo
             THEN <<Piece(p[1].b, p[1].lo, r[1].hi)>> \o Tail(r)
             ELSE <<p[1]>> \o r

\* what the pipe has taken of the last buffer is that whole buffer once its
\* write has been counted, and its first bytes while the write is under way
C23_WholeFrames ==
    /\ Len(sink) = write_count
    /\ pipe = <<>> <=> (write_count = 0 /\ remaining = 0)
    /\ (remaining = 0 /\ pipe # <<>>)
           => C23_Joined(pipe) = <<Piece(Last(sink), 0, FrameBytes)>>
    /\ remaining > 0
           => /\ remaining < FrameBytes
              /\ C23_Joined(pipe) = <<Piece(audio_data, 0, FrameBytes - remaining)>>
    /\ wpc = "rest" => remaining > 0

(* C23: whatever parts the sink takes of each write (at least one byte each
   time), the writer goes on writing the rest of the frame, so the pipe gets
   each frame's bytes whole and in order; write_count goes up only when the
   whole frame has been written, and every write shortens what remains. *)
C23_WritesWholeFrames ==
    [][/\ C23_WholeFrames'
       /\ write_count' # write_count
              => /\ write_count' = write_count + 1
                 /\ remaining' = 0
                 /\ C23_Joined(pipe') = <<Piece(audio_data, 0, FrameBytes)>>
                 /\ Last(sink') = audio_data
       /\ (wpc = "rest" /\ pipe' # pipe)
              => /\ remaining' < remaining
                 /\ remaining' >= 0
                 /\ remaining' = 0 <=> wpc' = "loop"]_vars

\* a frame that the sink took in three parts, written whole and counted
C23_Witness ==
    /\ wpc = "loop"
    /\ write_count >= 1
    /\ Len(pipe) = 3
    /\ pipe[1].lo = 0
    /\ pipe[2].lo = pipe[1].hi
    /\ pipe[3].lo = pipe[2].hi
    /\ pipe[3].hi = FrameBytes
    /\ pipe[1].b = Last(sink)

(* C25: when recv returns b'' with nothing accumulated for the frame, the
   Receiver queues nothing, leaves its loop and sets running to False, which
   is what the writer's loop condition reads; nothing is pushed after that. *)
C25_CleanDisconnect ==
    [][/\ (pc = "recv" /\ pc' # "recv" /\ peerGone' /\ rcvd' = rcvd)
              => /\ pc' = "finally"
                 /\ pushed' = pushed
                 /\ audio_queue' = audio_queue
                 /\ frames' = frames
       /\ (pc = "finally" /\ pc' # "finally")
              => /\ pc' = "join"
                 /\ ~running'
                 /\ pushed' = pushed
       /\ ~running => pushed' = pushed]_vars

\* the client sent two whole frames and closed; the session has ended with
\* exactly those two pushed
C25_Witness ==
    /\ pc = "join"
    /\ ~running
    /\ peerGone
    /\ rcvd = 2 * FrameBytes
    /\ Len(pushed) = 2
    /\ \A i \in DOMAIN pushed : pushed[i].pad = 0

(* C26: a recv timeout with nothing accumulated pushes nothing and changes
   neither the queue nor the config; the Receiver goes back to `while
   self.running` with running true and reads again, however many such
   timeouts come in a row: from recv the session ends only when the peer is
   gone. *)
C26_IdleTimeoutRetries ==
    [][/\ (pc = "recv" /\ pc' = "loop" /\ rcvd' = rcvd)
              => /\ pushed' = pushed
                 /\ audio_queue' = audio_queue
                 /\ <<sample_rate, channels, chunk_size, quality, maxsize>>'
                        = <<sample_rate, channels, chunk_size, quality, maxsize>>
                 /\ running'
                 /\ client_socket' = "open"
       /\ (pc = "loop" /\ idle_timeouts > 0 /\ pc' # "loop") => pc' = "recv"
       /\ (pc = "recv" /\ pc' = "finally") => peerGone']_vars

\* after a frame the client paused for two timeouts in a row and the
\* Receiver is reading again
C26_Witness ==
    /\ idle_timeouts >= 2
    /\ pc = "recv"
    /\ running
    /\ Len(pushed) = 1
    /\ rcvd = FrameBytes

(* C28: the Receiver's push never waits for the writer: wherever the writer
   is, blocked in open or in a write included, a Receiver that has a frame to
   push can take its next step, the drop loop has fewer than max_drop <=
   maxsize turns behind it, and a Receiver back at recv can take the next
   frame off the socket. *)
C28_PushNeverBlocks ==
    /\ Pushing => ENABLED (Put \/ PutFull \/ DropOldest \/ PutAfterDrop)
    /\ pc = "drop" => (dropped < max_drop /\ max_drop <= maxsize)
    /\ pc = "loop" => ENABLED RecvLoop
    /\ (pc = "recv" /\ ~peerGone /\ frames < MaxEndToEndFrames)
           => ENABLED RecvFrameEndToEnd

\* the writer has popped the first frame and is still in its first write;
\* the Receiver has meanwhile pushed four more, evicting on overflow, and is
\* back in its loop
C28_Witness ==
    /\ wpc = "write"
    /\ sink = <<>>
    /\ Len(pushed) = 5
    /\ overflows >= 1
    /\ evicted >= 1
    /\ pc = "loop"
    /\ Last(audio_queue) = Last(pushed)

(* C29: a client connection is open exactly while run is between accept and
   the end of that client's session, so never two at a time; run is back at
   accept only with the connection closed, and when a connection is in its
   handshake, about to start its Receiver and writer, no writer thread of an
   earlier session is alive. *)
C29_OneSessionAtATime ==
    /\ client_socket = "open"
           <=> pc \in {"config", "start", "loop", "recv", "put", "full",
                       "drop", "put2", "finally", "join", "close"}
    /\ pc = "accept" => client_socket = "none"
    /\ pc \in {"accept", "config", "start"} => wpc \in {"idle", "done"}
    /\ wpc \notin {"idle", "done"} => sessions >= 1

\* the second client is streaming, Receiver and writer both at work, after
\* the first client's session has ended
C29_Witness ==
    /\ sessions = 2
    /\ client_socket = "open"
    /\ wpc = "write"
    /\ Pushing

(* C27: once running is False during streaming, the Receiver pushes no
   further frame (at most one is claimed) and leaves, and the writer, while
   the shutdown still waits for it in join, ends only by its loop condition,
   with the queue drained and every buffer that was queued at that moment
   written to the pipe. *)
C27_TerminatesDrained ==
    [][/\ ~running => pushed' = pushed
       /\ (~running /\ pc \in {"join", "join_exit"}
               /\ wpc \notin {"idle", "done"} /\ wpc' = "done")
              => /\ wexit' = "normal"
                 /\ audio_queue' = <<>>
                 /\ \A i \in DOMAIN atEnd :
                        \E j \in DOMAIN sink' : sink'[j] = atEnd[i]]_vars

(* C30: when the FIFO could not be made again after a session, run does not
   go back to accept without it and the process does not end with the status
   of success. *)
C30_SinkLossIsFatal ==
    /\ pc = "accept" => pipe_exists
    /\ (pc = "exited" /\ ~pipe_exists) => exit_code = "1"

(* C31: a sendall that fails in stream_audio ends the sender loop: the step *)
(* leaves frame_count and the last payload sent as they were, and cleanup   *)
(* has cleared running and closed the capture stream and the socket; from   *)
(* then on nothing is captured or sent and nothing is opened again.         *)
C31_SendFailureEndsSender ==
    [][/\ (cpc = "send" /\ cpc' \notin {"send", "sent"})
              => /\ cpc' = "stopped"
                 /\ frame_count' = frame_count
                 /\ payload' = payload
                 /\ ~c_running'
                 /\ stream' = "closed"
                 /\ socket' = "closed"
       /\ cpc = "stopped"
              => /\ cpc' = "stopped"
                 /\ UNCHANGED <<captured, payload, frame_count, clientRes>>]_vars

\* a send has failed after at least one frame went out
C31_Witness ==
    /\ cpc = "stopped"
    /\ frame_count >= 1
    /\ stream = "closed"
    /\ socket = "closed"
    /\ ~c_running

(* C32: receive_audio_config has returned within 5 seconds of its start,    *)
(* however the client paces the bytes of its line: a line that was not      *)
(* complete by then has made it fail with a timeout at that point, so no    *)
(* handshake, accepted or rejected, has taken longer.                       *)
C32_HandshakeWithinFiveSeconds ==
    pc \in {"start", "close"} => elapsed <= config_timeout

(* C33: a frame whose gain check found the gain 1.0 was sent without the    *)
(* gain being read again, and it is frameBytes long: the captured bytes up  *)
(* to that length, in place, and zero bytes after them.                     *)
C33_UnitGainIsIdentity ==
    (cpc = "sent" /\ reads # <<>> /\ reads[1] = 4)
        => /\ reads = <<4>>
           /\ Len(payload) = ExpectedSize
           /\ \A i \in 1..ExpectedSize :
                payload[i] = IF i <= Len(captured) THEN captured[i] ELSE 0

\* such a frame after a short capture with non-zero samples, the gain
\* having been changed once the check was made
C33_Witness ==
    /\ cpc = "sent"
    /\ reads = <<4>>
    /\ volume # 4
    /\ captured # <<>>
    /\ Len(captured) < ExpectedSize
    /\ captured[1] # 0
    /\ payload = captured \o Zeros(ExpectedSize - Len(captured))

(* C34: every buffer the Receiver delivers that holds no padding is one     *)
(* frame of the byte stream after the handshake, in place: the k-th such    *)
(* buffer (k from 0) ends with byte (k + 1) * frameBytes of what has been   *)
(* taken off the socket.                                                    *)
C34_FrameAlignment ==
    (pc = "put" /\ data # None /\ data.pad = 0)
        => rcvd = (data.id + 1) * DataSize

(* C36: while run is listening with running set, a step that accepts no     *)
(* client and leaves running set leaves run listening: an accept timeout    *)
(* does not end the loop.                                                   *)
C36_AcceptTimeoutKeepsListening ==
    [][(pc = "accept" /\ running /\ running' /\ sessions' = sessions)
           => pc' = "accept"]_vars

(* C35: a call of receive_audio_config that fails leaves sample_rate,       *)
(* channels, chunk_size, quality and audio_queue as they were before it.    *)
C35_RejectedHandshakeKeepsState ==
    [][(pc = "config" /\ pc' = "close")
           => UNCHANGED <<sample_rate, channels, chunk_size, quality,
                          audio_queue>>]_vars

(* C37: in the GUI server every buffer _stream_audio has put on audio_queue *)
(* and every buffer the writer has written to the sink is frameBytes long,  *)
(* whatever the recv calls returned.                                        *)
C37_GuiExactFrameLength ==
    /\ \A i \in DOMAIN pushed : pushed[i].n + pushed[i].pad = DataSize
    /\ \A i \in DOMAIN sink : sink[i].n + sink[i].pad = DataSize

(* C38: in the GUI server a push that completes, whatever the writer popped *)
(* meanwhile, has appended the received buffer to audio_queue: it is the    *)
(* newest buffer queued, also when the queue was found full.                *)
C38_GuiNewestQueued ==
    [][(pc \in {"put", "full"} /\ pc' = "loop")
           => /\ pushed' = Append(pushed, data)
              /\ audio_queue' # <<>>
              /\ audio_queue'[Len(audio_queue')] = data]_vars

====
